---- MODULE Spec2Model ----
(***************************************************************************)
(* PokePort: the register mirror (hal/gba_port.h, hal/gba_hw_redirect.cpp), *)
(* the capture of the mirror into an AgbHwState snapshot, the bridge that   *)
(* hands a snapshot to the renderer (bridge/agb_bridge.cpp) and the         *)
(* renderer's buffers, uploads, dispatch and readback                       *)
(* (renderer/src/agb_vk.cpp).                                               *)
(*                                                                         *)
(* An 8-bit or 16-bit object is kept as its bit pattern, a number in       *)
(* 0..255 or 0..65535 (S16 reads a pattern as an int16_t).  A 32-bit       *)
(* object is kept as the int32_t value of its pattern, a number in         *)
(* -2^31..2^31-1, so a uint32_t below 2^31 is kept as itself.              *)
(* The four byte memories, the scanline table and the object affine       *)
(* table are kept at sampled indices (the first and last NProbe of each    *)
(* array): the copies and uploads treat all indices of an array alike.     *)
(***************************************************************************)
EXTENDS Integers, Sequences, FiniteSets, TLC

\* ------------------------------------------------------------------ bounds
\* Sampled indices at each end of a large array.
NProbe == 2
\* Writes to the mirror (I/O array, gba::REG, memories) or to a host snapshot.
MaxWrites == 1
\* Direct calls of a single upload endpoint or of readback.
MaxUploads == 1
\* Frames one caller dispatches.
MaxFrames == 2

\* ------------------------------------------------- sizes (agb_bridge.h)
AGB_VRAM_SIZE == 98304
AGB_PAL_BG_SIZE == 1024
AGB_PAL_OBJ_SIZE == 512
AGB_OAM_SIZE == 1024
AGB_SCANLINES == 160
AGB_BG_COUNT == 4
AGB_BG_PARAM_DWORDS == 8
AGB_BG_AFF_COUNT == 4
AGB_OBJ_AFF_COUNT == 32
AGB_BG_FLAG_AFFINE == 1
AGB_BG_FLAG_WRAP == 2
AGB_BG_FLAG_MOSAIC == 4

\* ------------------------------------------------------ machine integers
W8 == 2 ^ 8
W16 == 2 ^ 16
INT32_MIN == -2147483647 - 1

\* (w >> lo) & (2^n - 1) of an unsigned pattern
Field(w, lo, n) == (w \div (2 ^ lo)) % (2 ^ n)
Bit(w, k) == Field(w, k, 1)

\* a | b on non-negative words
RECURSIVE BitOr(_, _)
BitOr(a, b) ==
    IF a = 0 THEN b
    ELSE IF b = 0 THEN a
    ELSE (IF a % 2 = 1 \/ b % 2 = 1 THEN 1 ELSE 0) + 2 * BitOr(a \div 2, b \div 2)

\* the int16_t a 16-bit pattern holds
S16(p) == IF p >= 32768 THEN p - W16 ELSE p
\* the 16-bit pattern of a value
U16(v) == v % W16

\* int16_t -> int32_t (value preserving, so the sign bit is replicated)
SExt16(p) == S16(p)
\* int32_t >> n on the machines the port builds for (arithmetic shift)
Asr32(x, n) == x \div (2 ^ n)

\* the sampled indices of an array of n elements
Probes(n) == {i \in (0 .. NProbe - 1) \cup (n - NProbe .. n - 1) : i >= 0 /\ i < n}

\* ------------------------------------- I/O register offsets (gba_hw_redirect.h)
OFFSET_REG_DISPCNT == 0
OFFSET_REG_BG0CNT == 8
OFFSET_REG_BG0HOFS == 16
OFFSET_REG_BG0VOFS == 18
OFFSET_REG_BG2PA == 32
OFFSET_REG_BG2PB == 34
OFFSET_REG_BG2PC == 36
OFFSET_REG_BG2PD == 38
OFFSET_REG_BG2X == 40
OFFSET_REG_BG2Y == 44
OFFSET_REG_WIN0H == 64
OFFSET_REG_WIN1H == 66
OFFSET_REG_WIN0V == 68
OFFSET_REG_WIN1V == 70
OFFSET_REG_WININ == 72
OFFSET_REG_WINOUT == 74
OFFSET_REG_MOSAIC == 76
OFFSET_REG_BLDCNT == 80
OFFSET_REG_BLDALPHA == 82
OFFSET_REG_BLDY == 84

\* halfword indices of io_registers the model keeps: the registers up to BLDY
IoIdx == 0 .. (OFFSET_REG_BLDY \div 2)
\* ---------------------------------------------------------- sampled values
\* 16-bit words: 0x6AD5 (alternating bits in both 6-bit fields of a window
\* mask, bits 6, 7 and 14 set beside them) and 0xFF00 (the int16_t -256)
U16S == {27349, 65280}
\* int32_t values: just below 2^20, 2^20 + 1, INT32_MIN, -1
U32S == {1048575, 1048577, INT32_MIN, -1}
U8S == {1, 255}
\* OBJ affine sets written directly
\* the matrices of OBJ_AFF / objAff that are kept
ObjAffIdx == Probes(AGB_OBJ_AFF_COUNT)

VARIABLES
    io,        \* io_registers[] (gba_hw_redirect.cpp)
    REG,       \* gba::REG
    VRAM, PAL_BG, PAL_OBJ, OAM,   \* gba:: memory mirrors
    hw,        \* the caller's AgbHwState
    ctx,       \* the renderer context's buffers
    rgba,      \* the caller's readback destination
    vk,        \* command buffer, fence, queue and device of the context
    oob,       \* buffers a call accessed past their end
    last,      \* the call that ran last, with its arguments
    site,      \* the part of the mirror the code of this run writes
    nw, nu, nf \* counters for the bounds

vars == <<io, REG, VRAM, PAL_BG, PAL_OBJ, OAM, hw, ctx, rgba, vk, oob, last, site, nw, nu, nf>>

\* ------------------------------------------------------------ the mirror
\* gba::Regs with its default member initialisers
RegsDefault ==
    [DISPCNT |-> 0,
     BG_CNT |-> [i \in 0 .. 3 |-> 0],
     BG_HOFS |-> [i \in 0 .. 3 |-> 0],
     BG_VOFS |-> [i \in 0 .. 3 |-> 0],
     WIN0H_x1 |-> 0, WIN0H_x2 |-> 0, WIN0V_y1 |-> 0, WIN0V_y2 |-> 0,
     WIN1H_x1 |-> 0, WIN1H_x2 |-> 0, WIN1V_y1 |-> 0, WIN1V_y2 |-> 0,
     WININ |-> 0, WINOUT |-> 0,
     BLDCNT |-> 0, BLDALPHA |-> 0, BLDY |-> 0,
     MOSAIC |-> 0,
     BG2PA |-> 256, BG2PB |-> 0, BG2PC |-> 0, BG2PD |-> 256,
     BG2X |-> 0, BG2Y |-> 0,
     BG3PA |-> 256, BG3PB |-> 0, BG3PC |-> 0, BG3PD |-> 256,
     BG3X |-> 0, BG3Y |-> 0,
     OBJ_AFF |-> [i \in ObjAffIdx |->
                    [pa |-> 256, pb |-> 0, pc |-> 0, pd |-> 256]]]

\* a zero-initialised byte array, at its sampled indices
ZeroBytes(n) == [a \in Probes(n) |-> 0]

\* static storage at program start
MirrorInit ==
    /\ io = [k \in IoIdx |-> 0]
    /\ REG = RegsDefault
    /\ VRAM = ZeroBytes(AGB_VRAM_SIZE)
    /\ PAL_BG = ZeroBytes(AGB_PAL_BG_SIZE)
    /\ PAL_OBJ = ZeroBytes(AGB_PAL_OBJ_SIZE)
    /\ OAM = ZeroBytes(AGB_OAM_SIZE)

\* ------------------------------------------------------------ AgbHwState
ScanIdx == Probes(AGB_SCANLINES)

\* every word of a Scanline set to w
ScanlineOf(w) ==
    [hofs |-> [i \in 0 .. 3 |-> w], vofs |-> [i \in 0 .. 3 |-> w],
     win0x1 |-> w, win0x2 |-> w, p0 |-> w, p1 |-> w,
     win1x1 |-> w, win1x2 |-> w, p2 |-> w, p3 |-> w,
     bldcnt |-> w, bldalpha |-> w, bldy |-> w, flags |-> w]

\* an AgbHwState whose every byte is b (w the word made of four b)
HwFilled(b, w) ==
    [vram |-> [a \in Probes(AGB_VRAM_SIZE) |-> b],
     pal_bg |-> [a \in Probes(AGB_PAL_BG_SIZE) |-> b],
     pal_obj |-> [a \in Probes(AGB_PAL_OBJ_SIZE) |-> b],
     oam |-> [a \in Probes(AGB_OAM_SIZE) |-> b],
     bg_params |-> [i \in 0 .. AGB_BG_COUNT - 1 |->
        [charBase |-> w, screenBase |-> w, hofs |-> w, vofs |-> w,
         pri |-> w, enabled |-> w, flags |-> w, pad |-> w]],
     win |-> [win0 |-> [k \in 0 .. 3 |-> w], win1 |-> [k \in 0 .. 3 |-> w],
              winIn0 |-> w, winIn1 |-> w, winOut |-> w, winObj |-> w],
     fx |-> [bldcnt |-> w, bldalpha |-> w, bldy |-> w, mosaic |-> w],
     scan |-> [y \in ScanIdx |-> ScanlineOf(w)],
     bgAff |-> [i \in 0 .. AGB_BG_AFF_COUNT - 1 |->
        [refX |-> w, refY |-> w, pa |-> w, pb |-> w, pc |-> w, pd |-> w]],
     objAff |-> [i \in ObjAffIdx |->
        [pa |-> w, pb |-> w, pc |-> w, pd |-> w]]]

\* AgbHwState hw{}
HwZero == HwFilled(0, 0)
\* a target that was not cleared (a reused or uninitialised object)
HwStale == HwFilled(165, -1515870811)

\* ------------------------------------------------- writes to the mirror
\* The caller of a run works on one part of the state: the background
\* registers, the affine registers, the window and colour-effect registers,
\* the memories, or the output frame.
Sites == {"bg", "affine", "window", "memory", "output"}

\* the I/O registers of a site that the header gives a 16-bit REG_* lvalue
SiteIo16(s) ==
    CASE s = "bg" ->
            {OFFSET_REG_DISPCNT}
            \cup {OFFSET_REG_BG0CNT + 2 * i : i \in 0 .. 3}
            \cup {OFFSET_REG_BG0HOFS + 4 * i : i \in 0 .. 3}
            \cup {OFFSET_REG_BG0VOFS + 4 * i : i \in 0 .. 3}
      [] s = "affine" ->
            {OFFSET_REG_BG2PA, OFFSET_REG_BG2PB, OFFSET_REG_BG2PC, OFFSET_REG_BG2PD}
      [] s = "window" ->
            {OFFSET_REG_WIN0H, OFFSET_REG_WIN1H, OFFSET_REG_WIN0V, OFFSET_REG_WIN1V,
             OFFSET_REG_WININ, OFFSET_REG_WINOUT, OFFSET_REG_MOSAIC,
             OFFSET_REG_BLDCNT, OFFSET_REG_BLDALPHA, OFFSET_REG_BLDY}
      [] OTHER -> {}
\* ... a 32-bit REG_* lvalue
SiteIo32(s) == IF s = "affine" THEN {OFFSET_REG_BG2X, OFFSET_REG_BG2Y} ELSE {}

\* the members of gba::Regs of a site, by type
SiteReg16(s) ==
    CASE s = "bg" -> {"DISPCNT"}
      [] s = "affine" ->
            {"BG2PA", "BG2PB", "BG2PC", "BG2PD", "BG3PA", "BG3PB", "BG3PC", "BG3PD"}
      [] s = "window" -> {"WININ", "WINOUT", "BLDCNT", "BLDALPHA", "MOSAIC"}
      [] OTHER -> {}
SiteRegArr(s) == IF s = "bg" THEN {"BG_CNT", "BG_HOFS", "BG_VOFS"} ELSE {}
SiteReg8(s) ==
    IF s = "window"
    THEN {"WIN0H_x1", "WIN0H_x2", "WIN0V_y1", "WIN0V_y2",
          "WIN1H_x1", "WIN1H_x2", "WIN1V_y1", "WIN1V_y2", "BLDY"}
    ELSE {}
SiteReg32(s) == IF s = "affine" THEN {"BG2X", "BG2Y", "BG3X", "BG3Y"} ELSE {}
SiteObjAff(s) == IF s = "affine" THEN ObjAffIdx ELSE {}
AffFields == {"pa", "pb", "pc", "pd"}

MemUnchanged == UNCHANGED <<VRAM, PAL_BG, PAL_OBJ, OAM>>
RenderUnchanged == UNCHANGED <<ctx, rgba, vk, oob, nu, nf>>

\* REG_xxx = v through gba_io_base(): a 16-bit store into io_registers
IoWrite16 ==
    /\ nw < MaxWrites
    /\ \E off \in SiteIo16(site), v \in U16S : io' = [io EXCEPT ![off \div 2] = v]
    /\ nw' = nw + 1
    /\ last' = [op |-> "IoWrite16"]
    /\ MemUnchanged /\ RenderUnchanged
    /\ UNCHANGED <<REG, hw, site>>

\* REG_BG2X = v, REG_BG2Y = v: a 32-bit store, low halfword first in memory
IoWrite32 ==
    /\ nw < MaxWrites
    /\ \E off \in SiteIo32(site), v \in U32S :
          io' = [io EXCEPT ![off \div 2] = v % W16,
                           ![off \div 2 + 1] = (v \div W16) % W16]
    /\ nw' = nw + 1
    /\ last' = [op |-> "IoWrite32"]
    /\ MemUnchanged /\ RenderUnchanged
    /\ UNCHANGED <<REG, hw, site>>

\* gba::REG.member = v, written directly
RegWrite ==
    /\ nw < MaxWrites
    /\ \/ \E f \in SiteReg16(site), v \in U16S : REG' = [REG EXCEPT ![f] = v]
       \/ \E f \in SiteRegArr(site), i \in 0 .. 3, v \in U16S :
            REG' = [REG EXCEPT ![f][i] = v]
       \/ \E f \in SiteReg8(site), v \in U8S : REG' = [REG EXCEPT ![f] = v]
       \/ \E f \in SiteReg32(site), v \in U32S : REG' = [REG EXCEPT ![f] = v]
       \/ \E i \in SiteObjAff(site), f \in AffFields, v \in U16S :
            REG' = [REG EXCEPT !.OBJ_AFF[i][f] = v]
    /\ nw' = nw + 1
    /\ last' = [op |-> "RegWrite"]
    /\ MemUnchanged /\ RenderUnchanged
    /\ UNCHANGED <<io, hw, site>>

\* a target whose memory fields are views of the mirror arrays
hwAfterStore_view(h, v, pb, po, o) ==
    [h EXCEPT !.vram = v, !.pal_bg = pb, !.pal_obj = po, !.oam = o]
\* the target after a store that leaves the mirror memories as v, pb, po, o:
\* AgbHwState holds its four memories by value, filled by memcpy
hwAfterStore(h, v, pb, po, o) == h

\* a byte stored through gba_vram_base(), gba_bg_palette(), gba_obj_palette(),
\* gba_oam_base() or one element of a DmaCopy/DmaFill into the region
MemWrite ==
    /\ nw < MaxWrites
    /\ site = "memory"
    /\ \/ \E a \in DOMAIN VRAM, b \in U8S :
            VRAM' = [VRAM EXCEPT ![a] = b] /\ UNCHANGED <<PAL_BG, PAL_OBJ, OAM>>
       \/ \E a \in DOMAIN PAL_BG, b \in U8S :
            PAL_BG' = [PAL_BG EXCEPT ![a] = b] /\ UNCHANGED <<VRAM, PAL_OBJ, OAM>>
       \/ \E a \in DOMAIN PAL_OBJ, b \in U8S :
            PAL_OBJ' = [PAL_OBJ EXCEPT ![a] = b] /\ UNCHANGED <<VRAM, PAL_BG, OAM>>
       \/ \E a \in DOMAIN OAM, b \in U8S :
            OAM' = [OAM EXCEPT ![a] = b] /\ UNCHANGED <<VRAM, PAL_BG, PAL_OBJ>>
    /\ hw' = hwAfterStore(hw, VRAM', PAL_BG', PAL_OBJ', OAM')
    /\ nw' = nw + 1
    /\ last' = [op |-> "MemWrite"]
    /\ RenderUnchanged
    /\ UNCHANGED <<io, REG, site>>

\* DmaFill16(value, base, halfwords) over a whole region: every halfword of
\* it becomes value, low byte first
DmaFill16 ==
    /\ nw < MaxWrites
    /\ site = "memory"
    /\ \E value \in U16S :
        \/ /\ VRAM' = [a \in DOMAIN VRAM |->
                        IF a % 2 = 0 THEN value % W8 ELSE (value \div W8) % W8]
           /\ UNCHANGED <<PAL_BG, PAL_OBJ, OAM>>
        \/ /\ OAM' = [a \in DOMAIN OAM |->
                        IF a % 2 = 0 THEN value % W8 ELSE (value \div W8) % W8]
           /\ UNCHANGED <<VRAM, PAL_BG, PAL_OBJ>>
    /\ hw' = hwAfterStore(hw, VRAM', PAL_BG', PAL_OBJ', OAM')
    /\ nw' = nw + 1
    /\ last' = [op |-> "DmaFill16"]
    /\ RenderUnchanged
    /\ UNCHANGED <<io, REG, site>>

\* ------------------------------------------------ sync_io_to_gba_state
\* io_registers[off / 2]
IoAt(off) == io[off \div 2]
\* *reinterpret_cast<int32_t*>(&io_registers[off / 2]) on a little-endian host
IoAt32(off) == io[off \div 2] + W16 * S16(io[off \div 2 + 1])

SyncedRegs ==
    [REG EXCEPT
        !.DISPCNT = IoAt(OFFSET_REG_DISPCNT),
        !.BG_CNT = [i \in 0 .. 3 |-> IoAt(OFFSET_REG_BG0CNT + i * 2)],
        !.BG_HOFS = [i \in 0 .. 3 |-> IoAt(OFFSET_REG_BG0HOFS + i * 4)],
        !.BG_VOFS = [i \in 0 .. 3 |-> IoAt(OFFSET_REG_BG0VOFS + i * 4)],
        !.WIN0H_x1 = Field(IoAt(OFFSET_REG_WIN0H), 0, 8),
        !.WIN0H_x2 = Field(IoAt(OFFSET_REG_WIN0H), 8, 8),
        !.WIN0V_y1 = Field(IoAt(OFFSET_REG_WIN0V), 0, 8),
        !.WIN0V_y2 = Field(IoAt(OFFSET_REG_WIN0V), 8, 8),
        !.WININ = IoAt(OFFSET_REG_WININ),
        !.WINOUT = IoAt(OFFSET_REG_WINOUT),
        !.BLDCNT = IoAt(OFFSET_REG_BLDCNT),
        !.BLDALPHA = IoAt(OFFSET_REG_BLDALPHA),
        !.BLDY = Field(IoAt(OFFSET_REG_BLDY), 0, 8),
        !.MOSAIC = IoAt(OFFSET_REG_MOSAIC),
        !.BG2PA = IoAt(OFFSET_REG_BG2PA),
        !.BG2PB = IoAt(OFFSET_REG_BG2PB),
        !.BG2PC = IoAt(OFFSET_REG_BG2PC),
        !.BG2PD = IoAt(OFFSET_REG_BG2PD),
        !.BG2X = IoAt32(OFFSET_REG_BG2X),
        !.BG2Y = IoAt32(OFFSET_REG_BG2Y)]

sync_io_to_gba_state ==
    /\ REG' = SyncedRegs
    /\ last' = [op |-> "sync_io_to_gba_state"]
    /\ MemUnchanged /\ RenderUnchanged
    /\ UNCHANGED <<io, hw, site, nw>>

\* ----------------------------------------------------------- snapshot_to
\* the 2-bit field scaled by the 8 KiB spacing the authored scene uses
charBaseBytes_8k(bgcnt) == Field(bgcnt, 2, 2) * 8 * 1024
charBaseBytes(bgcnt) == Field(bgcnt, 2, 2) * 16 * 1024
screenBaseBytes(bgcnt) == Field(bgcnt, 8, 5) * 2 * 1024
pri(bgcnt) == Field(bgcnt, 0, 2)
\* the neighbouring control bit tested instead of bit 6
mosaicFlag_bit7(bgcnt) == IF Bit(bgcnt, 7) = 1 THEN AGB_BG_FLAG_MOSAIC ELSE 0
mosaicFlag(bgcnt) == IF Bit(bgcnt, 6) = 1 THEN AGB_BG_FLAG_MOSAIC ELSE 0

\* the flags word of background i
bgFlags(i) ==
    IF i >= 2 THEN BitOr(mosaicFlag(REG.BG_CNT[i]), AGB_BG_FLAG_AFFINE)
    ELSE mosaicFlag(REG.BG_CNT[i])

\* enabled taken from the background-enable bits 8..11 of DISPCNT
bgParamOf_dispcnt(i) ==
    [charBase |-> charBaseBytes(REG.BG_CNT[i]),
     screenBase |-> screenBaseBytes(REG.BG_CNT[i]),
     hofs |-> REG.BG_HOFS[i],
     vofs |-> REG.BG_VOFS[i],
     pri |-> pri(REG.BG_CNT[i]),
     enabled |-> Bit(REG.DISPCNT, 8 + i),
     flags |-> bgFlags(i),
     pad |-> 0]
bgParamOf(i) ==
    [charBase |-> charBaseBytes(REG.BG_CNT[i]),
     screenBase |-> screenBaseBytes(REG.BG_CNT[i]),
     hofs |-> REG.BG_HOFS[i],
     vofs |-> REG.BG_VOFS[i],
     pri |-> pri(REG.BG_CNT[i]),
     enabled |-> 1,
     flags |-> bgFlags(i),
     pad |-> 0]

\* the rectangle stored as x1, x2, y1, y2
winOf_xxyy ==
    [win0 |-> [k \in 0 .. 3 |->
        CASE k = 0 -> REG.WIN0H_x1 [] k = 1 -> REG.WIN0H_x2
          [] k = 2 -> REG.WIN0V_y1 [] k = 3 -> REG.WIN0V_y2],
     win1 |-> [k \in 0 .. 3 |->
        CASE k = 0 -> REG.WIN1H_x1 [] k = 1 -> REG.WIN1H_x2
          [] k = 2 -> REG.WIN1V_y1 [] k = 3 -> REG.WIN1V_y2],
     winIn0 |-> Field(REG.WININ, 0, 6),
     winIn1 |-> Field(REG.WININ, 8, 6),
     winOut |-> Field(REG.WINOUT, 0, 6),
     winObj |-> Field(REG.WINOUT, 8, 6)]
winOf ==
    [win0 |-> [k \in 0 .. 3 |->
        CASE k = 0 -> REG.WIN0H_x1 [] k = 1 -> REG.WIN0V_y1
          [] k = 2 -> REG.WIN0H_x2 [] k = 3 -> REG.WIN0V_y2],
     win1 |-> [k \in 0 .. 3 |->
        CASE k = 0 -> REG.WIN1H_x1 [] k = 1 -> REG.WIN1V_y1
          [] k = 2 -> REG.WIN1H_x2 [] k = 3 -> REG.WIN1V_y2],
     winIn0 |-> Field(REG.WININ, 0, 6),
     winIn1 |-> Field(REG.WININ, 8, 6),
     winOut |-> Field(REG.WINOUT, 0, 6),
     winObj |-> Field(REG.WINOUT, 8, 6)]

fxOf ==
    [bldcnt |-> REG.BLDCNT, bldalpha |-> REG.BLDALPHA,
     bldy |-> REG.BLDY, mosaic |-> REG.MOSAIC]

\* a memset of sizeof(Scanline): only the first record is cleared
scanCleared_one(old) == [y \in DOMAIN old |-> IF y = 0 THEN ScanlineOf(0) ELSE old[y]]
\* std::memset(hw.scan, 0, sizeof(hw.scan))
scanCleared(old) == [y \in DOMAIN old |-> ScanlineOf(0)]

\* uint32_t >> n
Lsr32(x, n) == IF x < 0 THEN (2 ^ (32 - n)) + (x \div (2 ^ n)) ELSE x \div (2 ^ n)
\* the registers read as unsigned: a logical shift and no sign extension
packBG_unsigned(X, Y, pa, pb, pc, pd) ==
    [refX |-> Lsr32(X, 20), refY |-> Lsr32(Y, 20),
     pa |-> pa, pb |-> pb, pc |-> pc, pd |-> pd]
packBG(X, Y, pa, pb, pc, pd) ==
    [refX |-> Asr32(X, 20), refY |-> Asr32(Y, 20),
     pa |-> SExt16(pa), pb |-> SExt16(pb), pc |-> SExt16(pc), pd |-> SExt16(pd)]

\* bgAff[2] and bgAff[3] are packed; bgAff[0] and bgAff[1] are not assigned
bgAffOf(old) ==
    [i \in DOMAIN old |->
        CASE i = 2 -> packBG(REG.BG2X, REG.BG2Y, REG.BG2PA, REG.BG2PB, REG.BG2PC, REG.BG2PD)
          [] i = 3 -> packBG(REG.BG3X, REG.BG3Y, REG.BG3PA, REG.BG3PB, REG.BG3PC, REG.BG3PD)
          [] OTHER -> old[i]]

objAffOf ==
    [i \in ObjAffIdx |->
        [pa |-> SExt16(REG.OBJ_AFF[i].pa), pb |-> SExt16(REG.OBJ_AFF[i].pb),
         pc |-> SExt16(REG.OBJ_AFF[i].pc), pd |-> SExt16(REG.OBJ_AFF[i].pd)]]

\* the target after snapshot_to(h)
SnapshotOf(h) ==
    [vram |-> VRAM, pal_bg |-> PAL_BG, pal_obj |-> PAL_OBJ, oam |-> OAM,
     bg_params |-> [i \in 0 .. AGB_BG_COUNT - 1 |-> bgParamOf(i)],
     win |-> winOf,
     fx |-> fxOf,
     scan |-> scanCleared(h.scan),
     bgAff |-> bgAffOf(h.bgAff),
     objAff |-> objAffOf]

snapshot_to ==
    /\ hw' = SnapshotOf(hw)
    /\ last' = [op |-> "snapshot_to",
                synced |-> last.op = "sync_io_to_gba_state",
                stale |-> \E y \in DOMAIN hw.scan : hw.scan[y] # ScanlineOf(0)]
    /\ MemUnchanged /\ RenderUnchanged
    /\ UNCHANGED <<io, REG, site, nw>>

\* ------------------------------------------- renderer buffers (agb_vk.cpp)
VRAM_BYTES == 98304
PAL_BG_BYTES == 1024
PAL_OBJ_BYTES == 512
OAM_BYTES == 1024
WIN_BYTES == 64
FX_BYTES == 16
SCAN_BYTES == 12800
BG_PARAMS_U32 == 32
BG_AFF_I32 == 24
OBJ_AFF_I32 == 128
DEFAULT_FB_W == 240
DEFAULT_FB_H == 160
\* words of one Scanline record (80 bytes)
SCAN_WORDS == 20

BufNames ==
    {"outBuf", "vramBuf", "palBuf", "bgBuf", "palObjBuf", "oamBuf",
     "winBuf", "fxBuf", "scanBuf", "affBuf", "objAffBuf"}

\* Buffer::size of each buffer as agbvk_create sizes it, in 32-bit slots
BufSlots(b) ==
    CASE b = "outBuf" -> DEFAULT_FB_W * DEFAULT_FB_H
      [] b = "vramBuf" -> VRAM_BYTES
      [] b = "palBuf" -> PAL_BG_BYTES
      [] b = "palObjBuf" -> PAL_OBJ_BYTES
      [] b = "oamBuf" -> OAM_BYTES
      [] b = "winBuf" -> WIN_BYTES \div 4
      [] b = "fxBuf" -> FX_BYTES \div 4
      [] b = "scanBuf" -> SCAN_BYTES \div 4
      [] b = "bgBuf" -> BG_PARAMS_U32
      [] b = "affBuf" -> BG_AFF_I32
      [] b = "objAffBuf" -> OBJ_AFF_I32

\* the slots of a buffer the model keeps
KeptSlots(b) ==
    CASE b \in {"outBuf", "vramBuf", "palBuf", "palObjBuf", "oamBuf"} -> Probes(BufSlots(b))
      [] b = "scanBuf" -> {SCAN_WORDS * y + k : y \in ScanIdx, k \in 0 .. SCAN_WORDS - 1}
      [] b = "objAffBuf" -> {4 * i + k : i \in ObjAffIdx, k \in 0 .. 3}
      [] OTHER -> 0 .. BufSlots(b) - 1

\* the descriptor writes of agbvk_create: info[i] is bound at binding i
BindingOf ==
    <<"outBuf", "vramBuf", "palBuf", "bgBuf", "palObjBuf", "oamBuf",
      "winBuf", "fxBuf", "scanBuf", "affBuf", "objAffBuf">>

\* freshly allocated device memory holds no defined value
FreshS == {0, -842150451}

\* the context agbvk_create returns, its memory holding f everywhere
CtxCreated(f) == [b \in BufNames |-> [s \in KeptSlots(b) |-> f]]

\* the backend objects bring-up creates: instance and device, the objects
\* of the pipeline and of submission, and the eleven buffers, each with its
\* memory
BackendObjects ==
    {"instance", "dev", "dsl", "pl", "shader", "pipe", "pool", "cmdPool", "fence"}
        \cup BufNames

\* the object a backend object is created from and must be destroyed before
ParentOf(o) == IF o = "instance" THEN "none" ELSE IF o = "dev" THEN "instance" ELSE "dev"

\* command buffer, fence and queue after agbvk_create; the caller is outside
\* any call and holds the context.  err is the first backend call that did
\* not return VK_SUCCESS, reported the call named on std::cerr.
VkCreated ==
    [pc |-> "idle", cmd |-> "initial", fence |-> "unsignaled",
     gpu |-> "idle", overlap |-> FALSE, misuse |-> FALSE, failed |-> "none",
     err |-> "none", reported |-> "none", handle |-> "ctx", what |-> "none",
     live |-> BackendObjects, orphans |-> {}]

RenderInit(fresh) ==
    /\ \E f \in fresh : ctx = CtxCreated(f)
    /\ rgba = [n |-> 0, px |-> <<>>]
    /\ vk = VkCreated
    /\ oob = {}
    /\ nu = 0
    /\ nf = 0

\* ------------------------------------ the authored scene (agb_bridge.cpp)
\* put16LE: the byte of halfword v stored at an even (k = 0) or odd address
put16LE(v, k) == IF k = 0 THEN v % W8 ELSE (v \div W8) % W8

\* hw->vram[a] after agb_init_hw
SceneVram(a) ==
    CASE a \in 0 .. 31 -> 17
      [] a \in 32 .. 63 -> 34
      [] a \in 8192 .. 8223 -> 51
      [] a \in 16384 .. 16447 ->
            LET y == (a - 16384) \div 8
                x == (a - 16384) % 8
            IN  IF ((y \div 2) + (x \div 2)) % 2 = 1 THEN 1 ELSE 4
      [] a \in 32768 .. 32895 -> 17
      [] a \in 33792 .. 34047 -> 2
      [] a \in 65536 .. 67583 ->
            LET tx == ((a - 65536) \div 2) % 32
                ty == ((a - 65536) \div 2) \div 32
            IN  put16LE(((tx + ty) % 2) + 4096 * (tx % 2), a % 2)
      [] a \in 73728 .. 75775 ->
            LET tx == ((a - 73728) \div 2) % 32
                ty == ((a - 73728) \div 2) \div 32
            IN  IF tx \in 10 .. 19 /\ ty \in 5 .. 14
                THEN put16LE(1024 * ((tx - 10) % 2) + 2048 * ((ty - 5) % 2), a % 2)
                ELSE put16LE(1, a % 2)
      [] OTHER -> 0

\* setBGPal / setOBJPal
SceneBgColor(idx) ==
    CASE idx = 0 -> 16912 [] idx = 2 -> 32767 [] idx = 3 -> 31 [] idx = 4 -> 1023
      [] idx = 17 -> 992 [] idx = 18 -> 31744 [] OTHER -> 0
SceneObjColor(idx) == CASE idx = 1 -> 31775 [] idx = 2 -> 32736 [] OTHER -> 0

\* attribute h of OAM entry e
SceneOamAttr(e, h) ==
    CASE e = 0 -> <<12, 16396, 1024, 0>>[h + 1]
      [] e = 1 -> <<2066, 16402, 1024, 0>>[h + 1]
      [] e = 2 -> <<14104, 16428, 1040, 0>>[h + 1]
      [] e = 3 -> <<16424, 16408, 1024, 0>>[h + 1]
      [] OTHER -> IF h = 0 THEN 512 ELSE 0

\* int(4.0f * std::sin(y * pi / 16)): truncation toward zero
SineOfs(y) ==
    <<0, 0, 1, 2, 2, 3, 3, 3, 4, 3, 3, 3, 2, 2, 1, 0,
      0, 0, -1, -2, -2, -3, -3, -3, -4, -3, -3, -3, -2, -2, -1, 0>>[(y % 32) + 1]

SceneScanline(y) ==
    [hofs |-> [i \in 0 .. 3 |-> CASE i = 0 -> 12 + SineOfs(y) [] i = 1 -> 100 [] OTHER -> 0],
     vofs |-> [i \in 0 .. 3 |-> CASE i = 0 -> 7 [] i = 1 -> 32 [] OTHER -> 0],
     win0x1 |-> 8, win0x2 |-> 112, p0 |-> 0, p1 |-> 0,
     win1x1 |-> 0, win1x2 |-> 0, p2 |-> 0, p3 |-> 0,
     bldcnt |-> 0, bldalpha |-> 0, bldy |-> 0, flags |-> 1]

SceneBgParam(i) ==
    [charBase |-> i * 8 * 1024,
     screenBase |-> (64 + 8 * i) * 1024,
     hofs |-> <<12, 100, 0, 0>>[i + 1],
     vofs |-> <<7, 32, 0, 0>>[i + 1],
     pri |-> <<2, 1, 1, 3>>[i + 1],
     enabled |-> IF i = 3 THEN 0 ELSE 1,
     flags |-> <<0, AGB_BG_FLAG_MOSAIC, AGB_BG_FLAG_AFFINE + AGB_BG_FLAG_WRAP, 0>>[i + 1],
     pad |-> 0]

\* *hw after agb_init_hw(hw) with hw not null
InitHwScene ==
    [vram |-> [a \in Probes(AGB_VRAM_SIZE) |-> SceneVram(a)],
     pal_bg |-> [a \in Probes(AGB_PAL_BG_SIZE) |-> put16LE(SceneBgColor(a \div 2), a % 2)],
     pal_obj |-> [a \in Probes(AGB_PAL_OBJ_SIZE) |-> put16LE(SceneObjColor(a \div 2), a % 2)],
     oam |-> [a \in Probes(AGB_OAM_SIZE) |-> put16LE(SceneOamAttr(a \div 8, (a % 8) \div 2), a % 2)],
     bg_params |-> [i \in 0 .. AGB_BG_COUNT - 1 |-> SceneBgParam(i)],
     win |-> [win0 |-> [k \in 0 .. 3 |-> <<8, 8, 112, 56>>[k + 1]],
              win1 |-> [k \in 0 .. 3 |-> 0],
              winIn0 |-> 51, winIn1 |-> 0, winOut |-> 31, winObj |-> 33],
     fx |-> [bldcnt |-> 130, bldalpha |-> 2056, bldy |-> 8, mosaic |-> 13107],
     scan |-> [y \in ScanIdx |-> SceneScanline(y)],
     bgAff |-> [i \in 0 .. AGB_BG_AFF_COUNT - 1 |->
        IF i = 2
        THEN [refX |-> 20528, refY |-> 7968, pa |-> 166, pb |-> -96, pc |-> 96, pd |-> 166]
        ELSE [refX |-> 0, refY |-> 0, pa |-> 0, pb |-> 0, pc |-> 0, pd |-> 0]],
     objAff |-> [i \in ObjAffIdx |->
        IF i = 0 THEN [pa |-> 222, pb |-> -128, pc |-> 128, pd |-> 222]
        ELSE [pa |-> 0, pb |-> 0, pc |-> 0, pd |-> 0]]]

\* ---------------------------------------- marshalling (agb_bridge.cpp)
\* the structs of AgbHwState read as arrays of 32-bit words, member by member
BgParamWords(h) ==
    [s \in 0 .. AGB_BG_COUNT * AGB_BG_PARAM_DWORDS - 1 |->
        LET r == h.bg_params[s \div AGB_BG_PARAM_DWORDS]
        IN  <<r.charBase, r.screenBase, r.hofs, r.vofs,
              r.pri, r.enabled, r.flags, r.pad>>[(s % AGB_BG_PARAM_DWORDS) + 1]]

\* sizeof(WinState) = 48 bytes
WinWords(h) ==
    [s \in 0 .. 11 |->
        CASE s < 4 -> h.win.win0[s]
          [] s < 8 -> h.win.win1[s - 4]
          [] OTHER -> <<h.win.winIn0, h.win.winIn1, h.win.winOut, h.win.winObj>>[s - 7]]

FxWords(h) == [s \in 0 .. 3 |-> <<h.fx.bldcnt, h.fx.bldalpha, h.fx.bldy, h.fx.mosaic>>[s + 1]]

ScanWords(h) ==
    [s \in {SCAN_WORDS * y + k : y \in ScanIdx, k \in 0 .. SCAN_WORDS - 1} |->
        LET r == h.scan[s \div SCAN_WORDS]
            k == s % SCAN_WORDS
        IN  CASE k < 4 -> r.hofs[k]
              [] k < 8 -> r.vofs[k - 4]
              [] OTHER -> <<r.win0x1, r.win0x2, r.p0, r.p1,
                            r.win1x1, r.win1x2, r.p2, r.p3,
                            r.bldcnt, r.bldalpha, r.bldy, r.flags>>[k - 7]]

AffWords(h) ==
    [s \in 0 .. AGB_BG_AFF_COUNT * 6 - 1 |->
        LET r == h.bgAff[s \div 6]
        IN  <<r.refX, r.refY, r.pa, r.pb, r.pc, r.pd>>[(s % 6) + 1]]

ObjAffWords(h) ==
    [s \in {4 * i + k : i \in ObjAffIdx, k \in 0 .. 3} |->
        LET r == h.objAff[s \div 4]
        IN  <<r.pa, r.pb, r.pc, r.pd>>[(s % 4) + 1]]

\* ------------------------------------------- upload helpers (agb_vk.cpp)
\* the source read as int8_t: bytes of 128 and above come out negative
write_bytes_as_u32_signed(buf, src, countBytes) ==
    [s \in DOMAIN buf |->
        IF s < countBytes THEN (IF src[s] >= 128 THEN src[s] - W8 ELSE src[s]) ELSE buf[s]]
\* for (i < countBytes) dst[i] = src[i], with dst uint32_t* and src uint8_t*
write_bytes_as_u32(buf, src, countBytes) ==
    [s \in DOMAIN buf |-> IF s < countBytes THEN src[s] ELSE buf[s]]

\* memcpy(dst, src, countBytes) seen word by word: a word the copy ends inside
\* keeps its high bytes
write_bytes(buf, src, countBytes) ==
    [s \in DOMAIN buf |->
        IF 4 * s + 4 <= countBytes THEN src[s]
        ELSE IF 4 * s < countBytes
             THEN LET m == 2 ^ (8 * (countBytes - 4 * s))
                  IN  (src[s] % m) + (buf[s] - (buf[s] % m))
             ELSE buf[s]]

\* memcpy(dst, src, count * sizeof(uint32_t))
write_u32(buf, src, countU32) ==
    [s \in DOMAIN buf |-> IF s < countU32 THEN src[s] ELSE buf[s]]

\* memcpy(dst, src, count * sizeof(int32_t))
write_i32(buf, src, countI32) ==
    [s \in DOMAIN buf |-> IF s < countI32 THEN src[s] ELSE buf[s]]

\* the process has not been terminated and the context is not torn down
Running == vk.failed = "none" /\ vk.pc # "destroyed"

\* what a Vulkan call returns
VkResultS == {"VK_SUCCESS", "VK_ERROR_DEVICE_LOST"}

\* a check that lets every result pass
vkCheck_ignore(r) == "none"
\* vkCheck: anything but VK_SUCCESS ends the process through std::terminate
vkCheck(r) == IF r = "VK_SUCCESS" THEN "none" ELSE "terminated"

\* the result of a step of which `bad` is the first call to fail
ResultOf(bad) == IF bad = "none" THEN "VK_SUCCESS" ELSE "VK_ERROR_DEVICE_LOST"

\* vk after the checked calls of a step: the call that failed is recorded,
\* vkCheck names it on std::cerr and terminates
Checked(v, bad) ==
    [v EXCEPT !.err = IF v.err = "none" THEN bad ELSE @,
              !.reported = IF vkCheck(ResultOf(bad)) = "none" THEN @ ELSE bad,
              !.failed = IF vkCheck(ResultOf(bad)) = "none" THEN @ ELSE vkCheck(ResultOf(bad))]

\* the step goes on past its checked calls
Passed(bad) == vkCheck(ResultOf(bad)) = "none"

\* a pointer argument
PtrS == {"null", "valid"}

\* ------------------------------------------------ agb_init_hw(hw)
\* if (!hw) return;
InitHwRejects(p) == p = "null"

agb_init_hw ==
    /\ Running
    /\ vk.pc = "idle"
    /\ \E p \in PtrS :
        /\ hw' = IF p = "null" THEN hw ELSE InitHwScene
        /\ vk' = IF ~InitHwRejects(p) /\ p = "null"
                 THEN [vk EXCEPT !.failed = "fault"] ELSE vk
        /\ last' = [op |-> "agb_init_hw", hwp |-> p]
    /\ MemUnchanged
    /\ UNCHANGED <<io, REG, ctx, rgba, oob, site, nw, nu, nf>>

\* ------------------------------------------------ agb_sync_to_renderer(hw, ctx)
\* if (!hw || !ctx) return;
SyncRejects_and(hwp, ctxp) == hwp = "null" /\ ctxp = "null"
SyncRejects(hwp, ctxp) == hwp = "null" \/ ctxp = "null"

\* the ten uploads, the background affine table counted as 4 words a record
SyncedCtx_affShort(h, c) ==
    [b \in BufNames |->
        CASE b = "vramBuf" -> write_bytes_as_u32(c[b], h.vram, AGB_VRAM_SIZE)
          [] b = "palBuf" -> write_bytes_as_u32(c[b], h.pal_bg, AGB_PAL_BG_SIZE)
          [] b = "bgBuf" -> write_u32(c[b], BgParamWords(h), AGB_BG_COUNT * AGB_BG_PARAM_DWORDS)
          [] b = "palObjBuf" -> write_bytes_as_u32(c[b], h.pal_obj, AGB_PAL_OBJ_SIZE)
          [] b = "oamBuf" -> write_bytes_as_u32(c[b], h.oam, AGB_OAM_SIZE)
          [] b = "winBuf" -> write_bytes(c[b], WinWords(h), 48)
          [] b = "fxBuf" -> write_bytes(c[b], FxWords(h), 16)
          [] b = "scanBuf" -> write_bytes(c[b], ScanWords(h), AGB_SCANLINES * 80)
          [] b = "affBuf" -> write_i32(c[b], AffWords(h), AGB_BG_AFF_COUNT * 4)
          [] b = "objAffBuf" -> write_i32(c[b], ObjAffWords(h), AGB_OBJ_AFF_COUNT * 4)
          [] OTHER -> c[b]]

\* the buffers after the ten uploads of agb_sync_to_renderer
SyncedCtx(h, c) ==
    [b \in BufNames |->
        CASE b = "vramBuf" -> write_bytes_as_u32(c[b], h.vram, AGB_VRAM_SIZE)
          [] b = "palBuf" -> write_bytes_as_u32(c[b], h.pal_bg, AGB_PAL_BG_SIZE)
          [] b = "bgBuf" -> write_u32(c[b], BgParamWords(h), AGB_BG_COUNT * AGB_BG_PARAM_DWORDS)
          [] b = "palObjBuf" -> write_bytes_as_u32(c[b], h.pal_obj, AGB_PAL_OBJ_SIZE)
          [] b = "oamBuf" -> write_bytes_as_u32(c[b], h.oam, AGB_OAM_SIZE)
          [] b = "winBuf" -> write_bytes(c[b], WinWords(h), 48)
          [] b = "fxBuf" -> write_bytes(c[b], FxWords(h), 16)
          [] b = "scanBuf" -> write_bytes(c[b], ScanWords(h), AGB_SCANLINES * 80)
          [] b = "affBuf" -> write_i32(c[b], AffWords(h), AGB_BG_AFF_COUNT * 6)
          [] b = "objAffBuf" -> write_i32(c[b], ObjAffWords(h), AGB_OBJ_AFF_COUNT * 4)
          [] OTHER -> c[b]]

\* the order in which agb_sync_to_renderer uploads the buffers
SyncOrder ==
    <<"vramBuf", "palBuf", "bgBuf", "palObjBuf", "oamBuf",
      "winBuf", "fxBuf", "scanBuf", "affBuf", "objAffBuf">>

\* how many of the ten uploads map their buffer before vkMapMemory fails
MapFailAt == {0, 5, Len(SyncOrder)}

\* the buffers after the first k uploads
SyncedUpTo(h, c, k) ==
    [b \in BufNames |->
        IF \E j \in 1 .. k : SyncOrder[j] = b THEN SyncedCtx(h, c)[b] ELSE c[b]]

agb_sync_to_renderer ==
    /\ Running
    /\ vk.pc = "idle"
    /\ \E hwp \in PtrS, ctxp \in PtrS, k \in MapFailAt :
        /\ (hwp = "null" \/ ctxp = "null") => k = Len(SyncOrder)
        /\ ctx' = IF hwp = "null" \/ ctxp = "null" THEN ctx
                  ELSE SyncedUpTo(hw, ctx,
                        IF Passed("vkMapMemory") THEN Len(SyncOrder) ELSE k)
        /\ vk' = CASE SyncRejects(hwp, ctxp) -> vk
                   [] hwp = "null" \/ ctxp = "null" -> [vk EXCEPT !.failed = "fault"]
                   [] OTHER ->
                        [Checked(vk, IF k = Len(SyncOrder) THEN "none" ELSE "vkMapMemory")
                            EXCEPT !.overlap = vk.overlap \/ vk.gpu # "idle"]
        /\ last' = [op |-> "agb_sync_to_renderer", hwp |-> hwp, ctxp |-> ctxp]
    /\ MemUnchanged
    /\ UNCHANGED <<io, REG, hw, rgba, oob, site, nw, nu, nf>>

\* ------------------------------------------------ agbvk_upload_*
\* element counts a caller passes for a buffer of cap elements
UploadCounts(cap) == {0, 1, cap, cap + 1}
\* byte counts a caller passes for a buffer of capBytes bytes
ByteCounts(capBytes) == {0, 2, capBytes, capBytes + 4}

\* the caller's source array: bytes, or 32-bit words
WordSrcS == {3, -2}
CallerBytes(b, v) == [i \in KeptSlots(b) |-> (v + 7 * i) % W8]
CallerWords(b, v) == [i \in KeptSlots(b) |-> v * (i + 1)]

\* one upload call: the helper writes n elements into buffer b of cap
\* elements; a write past the mapped range either lands outside the buffer
\* or faults
UploadStep(op, b, n, v, cap, newbuf) ==
    /\ Running
    /\ vk.pc = "idle"
    /\ nu < MaxUploads
    /\ \E bad \in {"none", "vkMapMemory"} :
        /\ ctx' = IF Passed(bad) THEN [ctx EXCEPT ![b] = newbuf] ELSE ctx
        /\ oob' = IF Passed(bad) /\ n > cap THEN oob \cup {b} ELSE oob
        /\ \E f \in (IF Passed(bad) /\ n > cap THEN {"none", "fault"} ELSE {"none"}) :
            vk' = IF Passed(bad)
                  THEN [Checked(vk, bad) EXCEPT !.failed = f,
                                                !.overlap = vk.overlap \/ vk.gpu # "idle"]
                  ELSE Checked(vk, bad)
    /\ last' = [op |-> op, buf |-> b, n |-> n, cap |-> cap, v |-> v, before |-> ctx[b]]
    /\ nu' = nu + 1
    /\ MemUnchanged
    /\ UNCHANGED <<io, REG, hw, rgba, site, nw, nf>>

agbvk_upload_vram ==
    /\ site = "memory"
    /\ \E n \in UploadCounts(VRAM_BYTES), v \in U8S :
        UploadStep("agbvk_upload_vram", "vramBuf", n, v, BufSlots("vramBuf"),
                   write_bytes_as_u32(ctx.vramBuf, CallerBytes("vramBuf", v), n))

agbvk_upload_pal_bg ==
    /\ site = "memory"
    /\ \E n \in UploadCounts(PAL_BG_BYTES), v \in U8S :
        UploadStep("agbvk_upload_pal_bg", "palBuf", n, v, BufSlots("palBuf"),
                   write_bytes_as_u32(ctx.palBuf, CallerBytes("palBuf", v), n))

agbvk_upload_bg_params ==
    /\ site = "bg"
    /\ \E n \in UploadCounts(BG_PARAMS_U32), v \in WordSrcS :
        UploadStep("agbvk_upload_bg_params", "bgBuf", n, v, BufSlots("bgBuf"),
                   write_u32(ctx.bgBuf, CallerWords("bgBuf", v), n))

agbvk_upload_pal_obj ==
    /\ site = "memory"
    /\ \E n \in UploadCounts(PAL_OBJ_BYTES), v \in U8S :
        UploadStep("agbvk_upload_pal_obj", "palObjBuf", n, v, BufSlots("palObjBuf"),
                   write_bytes_as_u32(ctx.palObjBuf, CallerBytes("palObjBuf", v), n))

agbvk_upload_oam ==
    /\ site = "memory"
    /\ \E n \in UploadCounts(OAM_BYTES), v \in U8S :
        UploadStep("agbvk_upload_oam", "oamBuf", n, v, BufSlots("oamBuf"),
                   write_bytes_as_u32(ctx.oamBuf, CallerBytes("oamBuf", v), n))

agbvk_upload_win ==
    /\ site = "window"
    /\ \E n \in ByteCounts(WIN_BYTES), v \in WordSrcS :
        UploadStep("agbvk_upload_win", "winBuf", n, v, 4 * BufSlots("winBuf"),
                   write_bytes(ctx.winBuf, CallerWords("winBuf", v), n))

agbvk_upload_fx ==
    /\ site = "window"
    /\ \E n \in ByteCounts(FX_BYTES), v \in WordSrcS :
        UploadStep("agbvk_upload_fx", "fxBuf", n, v, 4 * BufSlots("fxBuf"),
                   write_bytes(ctx.fxBuf, CallerWords("fxBuf", v), n))

agbvk_upload_scanline ==
    /\ site = "window"
    /\ \E n \in ByteCounts(SCAN_BYTES), v \in WordSrcS :
        UploadStep("agbvk_upload_scanline", "scanBuf", n, v, 4 * BufSlots("scanBuf"),
                   write_bytes(ctx.scanBuf, CallerWords("scanBuf", v), n))

agbvk_upload_bg_aff ==
    /\ site = "affine"
    /\ \E n \in UploadCounts(BG_AFF_I32), v \in WordSrcS :
        UploadStep("agbvk_upload_bg_aff", "affBuf", n, v, BufSlots("affBuf"),
                   write_i32(ctx.affBuf, CallerWords("affBuf", v), n))

agbvk_upload_obj_aff ==
    /\ site = "affine"
    /\ \E n \in UploadCounts(OBJ_AFF_I32), v \in WordSrcS :
        UploadStep("agbvk_upload_obj_aff", "objAffBuf", n, v, BufSlots("objAffBuf"),
                   write_i32(ctx.objAffBuf, CallerWords("objAffBuf", v), n))

\* ------------------------------------------------ agbvk_dispatch_frame
\* the words the shader leaves in the output buffer (opaque black, white)
PixelS == {-16777216, -1}

\* VkCommandPoolCreateInfo::flags of the pool the command buffer comes from
CommandPoolFlags == {}

\* vkBeginCommandBuffer, the recorded commands, vkEndCommandBuffer.  Unless
\* the pool has the reset flag, beginning a command buffer that is not in
\* the initial state is a misuse of the API.
dispatch_record ==
    /\ Running
    /\ vk.pc = "idle"
    /\ nf < MaxFrames
    /\ \E bad \in {"none", "vkBeginCommandBuffer", "vkEndCommandBuffer"} :
        vk' = [Checked(vk, bad) EXCEPT
                         !.pc = IF Passed(bad) THEN "recorded" ELSE @,
                         !.cmd = IF Passed(bad) THEN "executable" ELSE @,
                         !.misuse = @ \/ (vk.cmd # "initial"
                                /\ "RESET_COMMAND_BUFFER" \notin CommandPoolFlags)]
    /\ last' = [op |-> "agbvk_dispatch_frame", step |-> "record"]
    /\ MemUnchanged
    /\ UNCHANGED <<io, REG, hw, ctx, rgba, oob, site, nw, nu, nf>>

\* vkResetFences, vkQueueSubmit
dispatch_submit ==
    /\ Running
    /\ vk.pc = "recorded"
    /\ \E bad \in {"none", "vkResetFences", "vkQueueSubmit"} :
        vk' = [Checked(vk, bad) EXCEPT
                         !.pc = IF Passed(bad) THEN "submitted" ELSE @,
                         !.fence = IF bad = "vkResetFences" THEN @ ELSE "unsignaled",
                         !.gpu = IF bad = "none" THEN "pending" ELSE @,
                         !.cmd = IF bad = "none" THEN "pending" ELSE @]
    /\ last' = [op |-> "agbvk_dispatch_frame", step |-> "submit"]
    /\ MemUnchanged
    /\ UNCHANGED <<io, REG, hw, ctx, rgba, oob, site, nw, nu, nf>>

\* a wait that gives up at once
WaitReturns_poll(fence) == TRUE
\* vkWaitForFences(..., VK_TRUE, UINT64_MAX) returns VK_SUCCESS once the fence
\* is signaled
WaitReturns(fence) == fence = "signaled"

\* vkWaitForFences and the return of agbvk_dispatch_frame
dispatch_wait ==
    /\ Running
    /\ vk.pc = "submitted"
    /\ \/ /\ WaitReturns(vk.fence)
          /\ vk' = [vk EXCEPT !.pc = "idle"]
          /\ nf' = nf + 1
       \/ /\ Checked(vk, "vkWaitForFences") # vk
          /\ vk' = Checked(vk, "vkWaitForFences")
          /\ nf' = nf
    /\ last' = [op |-> "agbvk_dispatch_frame", step |-> "wait"]
    /\ MemUnchanged
    /\ UNCHANGED <<io, REG, hw, ctx, rgba, oob, site, nw, nu>>

\* the queue starts executing the submitted command buffer
GpuStart ==
    /\ Running
    /\ vk.gpu = "pending"
    /\ vk' = [vk EXCEPT !.gpu = "running"]
    /\ last' = [op |-> "gpu", step |-> "start"]
    /\ MemUnchanged
    /\ UNCHANGED <<io, REG, hw, ctx, rgba, oob, site, nw, nu, nf>>

\* the dispatch completes: the output buffer is written, the barrier makes
\* it visible to the host, the fence is signaled
GpuFinish ==
    /\ Running
    /\ vk.gpu = "running"
    /\ \E px \in PixelS : ctx' = [ctx EXCEPT !.outBuf = [s \in DOMAIN @ |-> px]]
    /\ vk' = [vk EXCEPT !.gpu = "idle", !.fence = "signaled", !.cmd = "executable"]
    /\ last' = [op |-> "gpu", step |-> "finish"]
    /\ MemUnchanged
    /\ UNCHANGED <<io, REG, hw, rgba, oob, site, nw, nu, nf>>

\* ------------------------------------------------ agbvk_readback_rgba
\* memcpy(dstRGBA, outBuf.map(), pixelCount * 4): words past the end of the
\* buffer hold no defined value
agbvk_readback_rgba ==
    /\ Running
    /\ site = "output"
    /\ vk.pc = "idle"
    /\ \E n \in UploadCounts(BufSlots("outBuf")), j \in FreshS, bad \in {"none", "vkMapMemory"} :
        /\ rgba' = IF Passed(bad)
                   THEN [n |-> n,
                         px |-> [i \in Probes(n) |->
                            IF i < BufSlots("outBuf") THEN ctx.outBuf[i] ELSE j]]
                   ELSE rgba
        /\ oob' = IF Passed(bad) /\ n > BufSlots("outBuf") THEN oob \cup {"outBuf"} ELSE oob
        /\ \E f \in (IF Passed(bad) /\ n > BufSlots("outBuf") THEN {"none", "fault"} ELSE {"none"}) :
            vk' = IF Passed(bad)
                  THEN [Checked(vk, bad) EXCEPT !.failed = f,
                                                !.overlap = vk.overlap \/ vk.gpu # "idle"]
                  ELSE Checked(vk, bad)
        /\ last' = [op |-> "agbvk_readback_rgba", buf |-> "outBuf", n |-> n,
                    cap |-> BufSlots("outBuf"), v |-> 0, before |-> ctx.outBuf]
    /\ MemUnchanged
    /\ UNCHANGED <<io, REG, hw, ctx, site, nw, nu, nf>>

\* ------------------------------------------------ teardown
\* the objects agbvk_destroy destroys, in program order; Buffer::destroy
\* destroys the buffer and frees its memory
DestroyOrder ==
    <<"fence", "cmdPool", "pool", "pipe", "shader", "pl", "dsl",
      "outBuf", "vramBuf", "palBuf", "bgBuf", "palObjBuf", "oamBuf",
      "winBuf", "fxBuf", "scanBuf", "affBuf", "objAffBuf", "dev", "instance">>

\* the objects the cleanup at the end of the prototype's main destroys
CleanupOrder ==
    <<"fence", "cmdPool", "pool", "pipe", "shader", "pl", "dsl",
      "outBuf", "vramBuf", "palBuf", "dev", "instance">>

\* the live objects after the destroy calls order[k..], and the objects
\* that were still alive when the object they were created from went away
RECURSIVE TornDown(_, _, _, _)
TornDown(order, k, live, orphans) ==
    IF k > Len(order) THEN [live |-> live, orphans |-> orphans]
    ELSE TornDown(order, k + 1, live \ {order[k]},
                  orphans \cup {o \in live : ParentOf(o) = order[k]})

\* agbvk_destroy(c): nothing for a null context; the caller holds no
\* context afterwards
agbvk_destroy ==
    /\ Running
    /\ vk.pc = "idle"
    /\ \E c \in PtrS :
        LET t == TornDown(DestroyOrder, 1, vk.live, vk.orphans)
        IN  /\ vk' = IF c = "null" THEN vk
                      ELSE [vk EXCEPT !.pc = "destroyed", !.handle = "none",
                                      !.live = t.live, !.orphans = t.orphans]
            /\ last' = [op |-> "agbvk_destroy", c |-> c]
    /\ MemUnchanged
    /\ UNCHANGED <<io, REG, hw, ctx, rgba, oob, site, nw, nu, nf>>

\* the end of the prototype's main, whose bring-up creates the same objects
main_cleanup ==
    /\ Running
    /\ vk.pc = "idle"
    /\ LET t == TornDown(CleanupOrder, 1, vk.live, vk.orphans)
       IN  vk' = [vk EXCEPT !.pc = "destroyed", !.handle = "none",
                            !.live = t.live, !.orphans = t.orphans]
    /\ last' = [op |-> "main_cleanup"]
    /\ MemUnchanged
    /\ UNCHANGED <<io, REG, hw, ctx, rgba, oob, site, nw, nu, nf>>

\* ------------------------------------------------------------- capture of the mirror
InitCapture ==
    /\ MirrorInit
    /\ hw \in {HwZero, HwStale}
    /\ RenderInit({0})
    /\ last = [op |-> "start"]
    /\ site \in Sites
    /\ nw = 0

NextCapture ==
    \/ IoWrite16
    \/ IoWrite32
    \/ RegWrite
    \/ MemWrite
    \/ DmaFill16
    \/ sync_io_to_gba_state
    \/ snapshot_to

SpecCapture == InitCapture /\ [][NextCapture]_vars

\* ------------------------------------------ bridge and upload endpoints
InitBridge ==
    /\ MirrorInit
    /\ hw \in {HwZero, HwStale}
    /\ RenderInit(FreshS)
    /\ last = [op |-> "start"]
    /\ site \in Sites
    /\ nw = 0

NextBridge ==
    \/ agb_init_hw
    \/ agb_sync_to_renderer
    \/ agbvk_upload_vram
    \/ agbvk_upload_pal_bg
    \/ agbvk_upload_bg_params
    \/ agbvk_upload_pal_obj
    \/ agbvk_upload_oam
    \/ agbvk_upload_win
    \/ agbvk_upload_fx
    \/ agbvk_upload_scanline
    \/ agbvk_upload_bg_aff
    \/ agbvk_upload_obj_aff
    \/ agbvk_readback_rgba

SpecBridge == InitBridge /\ [][NextBridge]_vars

\* ------------------------------------------ frames: upload, dispatch, readback
InitFrame ==
    /\ MirrorInit
    /\ hw = HwZero
    /\ RenderInit({0})
    /\ last = [op |-> "start"]
    /\ site \in {"memory", "output"}
    /\ nw = 0

NextFrame ==
    \/ agb_init_hw
    \/ agb_sync_to_renderer
    \/ agbvk_upload_vram
    \/ agbvk_upload_pal_bg
    \/ agbvk_upload_pal_obj
    \/ agbvk_upload_oam
    \/ dispatch_record
    \/ dispatch_submit
    \/ dispatch_wait
    \/ GpuStart
    \/ GpuFinish
    \/ agbvk_readback_rgba

SpecFrame == InitFrame /\ [][NextFrame]_vars

\* ------------------------------------------ creation of the context
\* the steps of agbvk_create that can fail, in program order: checked Vulkan
\* calls by their name, and the four tests that throw
CreateSteps ==
    <<"vkCreateInstance", "pdCount", "phys", "vkCreateDevice",
      "vkCreateBuffer", "findMemoryType", "vkAllocateMemory", "vkBindBufferMemory",
      "vkCreateDescriptorSetLayout", "vkCreatePipelineLayout", "readFile",
      "vkCreateShaderModule", "vkCreateComputePipelines", "vkCreateDescriptorPool",
      "vkAllocateDescriptorSets", "vkCreateCommandPool", "vkAllocateCommandBuffers",
      "vkCreateFence">>

\* what() of the std::runtime_error thrown by a test
Throws ==
    [pdCount |-> "No Vulkan devices.", phys |-> "No compute-capable queue.",
     findMemoryType |-> "No suitable memory type.", readFile |-> "Cannot open file: "]

\* the machine agbvk_create runs on: the number of physical devices, whether
\* one of them has a compute queue family, whether a host-visible memory type
\* and the shader file exist, and the checked call that fails, if any
CreateEnvS ==
    [pdCount : {0, 1}, compute : BOOLEAN, memType : BOOLEAN, file : BOOLEAN,
     bad : {"none"} \cup ({CreateSteps[i] : i \in DOMAIN CreateSteps} \ DOMAIN Throws)]

\* step i throws on machine e
ThrowsAt(e, i) ==
    \/ CreateSteps[i] = "pdCount" /\ e.pdCount = 0
    \/ CreateSteps[i] = "phys" /\ ~e.compute
    \/ CreateSteps[i] = "findMemoryType" /\ ~e.memType
    \/ CreateSteps[i] = "readFile" /\ ~e.file

\* step i does not let agbvk_create go on
StopsAt(e, i) == ThrowsAt(e, i) \/ (CreateSteps[i] = e.bad /\ ~Passed(e.bad))

\* the first step that stops agbvk_create, one past the last if none does
StopOf(e) ==
    IF \E i \in DOMAIN CreateSteps : StopsAt(e, i)
    THEN CHOOSE i \in DOMAIN CreateSteps :
            StopsAt(e, i) /\ \A j \in 1 .. i - 1 : ~StopsAt(e, j)
    ELSE Len(CreateSteps) + 1

\* the checked call is reached and returns its failure
FailsIn(e) == \E i \in DOMAIN CreateSteps : CreateSteps[i] = e.bad /\ i <= StopOf(e)

\* both viewers call agbvk_create once and leave main when it throws
agbvk_create ==
    /\ Running
    /\ vk.pc = "uncreated"
    /\ \E e \in CreateEnvS, f \in FreshS :
        LET stop == StopOf(e)
            v == Checked(vk, IF FailsIn(e) THEN e.bad ELSE "none")
        IN  /\ vk' = CASE stop > Len(CreateSteps) ->
                            [v EXCEPT !.pc = "idle", !.handle = "ctx",
                                      !.live = BackendObjects]
                        [] ThrowsAt(e, stop) ->
                            [v EXCEPT !.failed = "exception",
                                      !.what = Throws[CreateSteps[stop]]]
                        [] OTHER -> v
            /\ ctx' = IF stop > Len(CreateSteps) THEN CtxCreated(f) ELSE ctx
            /\ last' = [op |-> "agbvk_create", pdCount |-> e.pdCount,
                        compute |-> e.compute, memType |-> e.memType, file |-> e.file,
                        stop |-> stop]
    /\ MemUnchanged
    /\ UNCHANGED <<io, REG, hw, rgba, oob, site, nw, nu, nf>>

\* no context yet
InitCreate ==
    /\ MirrorInit
    /\ hw = HwZero
    /\ ctx = [b \in BufNames |-> <<>>]
    /\ rgba = [n |-> 0, px |-> <<>>]
    /\ vk = [VkCreated EXCEPT !.pc = "uncreated", !.handle = "none", !.live = {}]
    /\ oob = {}
    /\ nu = 0
    /\ nf = 0
    /\ last = [op |-> "start"]
    /\ site \in {"memory", "output"}
    /\ nw = 0

NextCreate ==
    \/ agbvk_create
    \/ agb_sync_to_renderer
    \/ agbvk_upload_vram
    \/ dispatch_record
    \/ dispatch_submit
    \/ dispatch_wait
    \/ GpuStart
    \/ GpuFinish
    \/ agbvk_readback_rgba
    \/ agbvk_destroy
    \/ main_cleanup

SpecCreate == InitCreate /\ [][NextCreate]_vars

\* ------------------------------------------ decode of the control words
\* every 16-bit value
Word16 == 0 .. W16 - 1

\* the mirror before any write, the target zeroed
InitDecode ==
    /\ MirrorInit
    /\ hw = HwZero
    /\ RenderInit({0})
    /\ last = [op |-> "start"]
    /\ site = "bg"
    /\ nw = 0

\* gba::REG.BG_CNT[i] = w, for any control word, once
BgCntWrite ==
    /\ nw = 0
    /\ \E i \in 0 .. 3, w \in Word16 : REG' = [REG EXCEPT !.BG_CNT[i] = w]
    /\ nw' = 1
    /\ last' = [op |-> "BgCntWrite"]
    /\ MemUnchanged
    /\ RenderUnchanged
    /\ UNCHANGED <<io, hw, site>>

NextDecode == BgCntWrite \/ snapshot_to

SpecDecode == InitDecode /\ [][NextDecode]_vars

\* ------------------------------------------ composition of one pixel
\* bit of a window mask and of the blend control for the sprite layer and
\* for the colour effect; backgrounds 0..3 have the bit of their index
OBJ_LAYER == 4
EFFECT_BIT == 5
\* the layer id of the backdrop
BACKDROP == 6

\* Step 1: the scroll, window slit and blend words in effect on line y of
\* snapshot h.  When the low bit of the last word of scan[y] is set the
\* record's values replace the frame-global ones.
resolveScanline(h, y) ==
    IF Bit(h.scan[y].flags, 0) = 1
    THEN [hofs |-> h.scan[y].hofs, vofs |-> h.scan[y].vofs,
          win0x1 |-> h.scan[y].win0x1, win0x2 |-> h.scan[y].win0x2,
          win1x1 |-> h.scan[y].win1x1, win1x2 |-> h.scan[y].win1x2,
          bldcnt |-> h.scan[y].bldcnt, bldalpha |-> h.scan[y].bldalpha,
          bldy |-> h.scan[y].bldy]
    ELSE [hofs |-> [i \in 0 .. 3 |-> h.bg_params[i].hofs],
          vofs |-> [i \in 0 .. 3 |-> h.bg_params[i].vofs],
          win0x1 |-> h.win.win0[0], win0x2 |-> h.win.win0[2],
          win1x1 |-> h.win.win1[0], win1x2 |-> h.win.win1[2],
          bldcnt |-> h.fx.bldcnt, bldalpha |-> h.fx.bldalpha, bldy |-> h.fx.bldy]

\* Steps 2 and 3 hand on, for the pixel, the texel sampled from each
\* background and from each sprite whose box covers the pixel: its palette
\* index and bank, and for a sprite its priority and mode.
\* OAM entries looked at (sampled)
ObjIdxS == {0, 127}

\* a texel contributes whatever its bank
opaque_bank0(t) == t.idx # 0 \/ t.bank # 0
\* index 0 of any bank is transparent
opaque(t) == t.idx # 0

\* Step 3: the sprites of the visible pass with an opaque texel here
visibleSprites(objT) ==
    {i \in DOMAIN objT : objT[i].mode # "window" /\ opaque(objT[i])}

\* the first (lowest OAM index) opaque sprite is tracked
firstSprite(objT) ==
    CHOOSE i \in visibleSprites(objT) : \A j \in visibleSprites(objT) : i <= j

\* Step 4: some OBJ-window sprite has an opaque texel here
inObjWindow(objT) ==
    \E i \in DOMAIN objT : objT[i].mode = "window" /\ opaque(objT[i])

\* a rectangle with exclusive upper bounds
inRect(x, y, x1, y1, x2, y2) == x1 <= x /\ x < x2 /\ y1 <= y /\ y < y2

\* Window1 is looked at before Window0
activeWindow_win1First(h, x, y, objT) ==
    LET r == resolveScanline(h, y)
    IN  CASE inRect(x, y, r.win1x1, h.win.win1[1], r.win1x2, h.win.win1[3]) -> "win1"
          [] inRect(x, y, r.win0x1, h.win.win0[1], r.win0x2, h.win.win0[3]) -> "win0"
          [] inObjWindow(objT) -> "obj"
          [] OTHER -> "out"
\* Step 5: which of Window0, Window1, OBJ-window, outside applies
activeWindow(h, x, y, objT) ==
    LET r == resolveScanline(h, y)
    IN  CASE inRect(x, y, r.win0x1, h.win.win0[1], r.win0x2, h.win.win0[3]) -> "win0"
          [] inRect(x, y, r.win1x1, h.win.win1[1], r.win1x2, h.win.win1[3]) -> "win1"
          [] inObjWindow(objT) -> "obj"
          [] OTHER -> "out"

\* the enable mask of the region
maskOf(h, w) ==
    CASE w = "win0" -> h.win.winIn0
      [] w = "win1" -> h.win.winIn1
      [] w = "obj" -> h.win.winObj
      [] OTHER -> h.win.winOut

\* the layers that survive the mask with an opaque texel
contributors(h, mask, bgT, objT) ==
    {b \in 0 .. 3 : h.bg_params[b].enabled # 0 /\ Bit(mask, b) = 1 /\ opaque(bgT[b])}
    \cup (IF visibleSprites(objT) # {} /\ Bit(mask, OBJ_LAYER) = 1
          THEN {OBJ_LAYER} ELSE {})

\* the priority a layer competes with
priOf(h, objT, l) ==
    IF l = OBJ_LAYER THEN objT[firstSprite(objT)].pri ELSE h.bg_params[l].pri

\* a background wins the tie against the sprite
inFront_bgWins(h, objT, l, m) ==
    \/ priOf(h, objT, l) < priOf(h, objT, m)
    \/ /\ priOf(h, objT, l) = priOf(h, objT, m)
       /\ l # OBJ_LAYER
       /\ (m = OBJ_LAYER \/ l < m)
\* Step 6: l is in front of m: the lower priority number, and the sprite
\* before a background of the same priority.  The frontmost contributor is
\* one layer: of two backgrounds of the same priority the one of the lower
\* index is in front, as on the console whose priority the engine reproduces.
inFront(h, objT, l, m) ==
    \/ priOf(h, objT, l) < priOf(h, objT, m)
    \/ /\ priOf(h, objT, l) = priOf(h, objT, m)
       /\ m # OBJ_LAYER
       /\ (l = OBJ_LAYER \/ l < m)

\* the layers of S no other layer of S is in front of; the backdrop if S is
\* empty
frontmost(h, objT, S) ==
    IF S = {} THEN {BACKDROP}
    ELSE {l \in S : \A m \in S : ~inFront(h, objT, m, l)}

\* channel k (0 red, 1 green, 2 blue) of a 15-bit colour, and the colour of
\* three channels
chan(c, k) == (c \div (32 ^ k)) % 32
rgb15(r, g, b) == r + 32 * g + 1024 * b

\* the backdrop: entry 0 of the background palette, two bytes low first
backdropColor(h) == h.pal_bg[0] + W8 * h.pal_bg[1]

\* the colour palette lookup gave for the opaque texel of a layer
SampleColor == <<31, 992, 31744, 1023, 31775>>
layerColor(h, l) == IF l = BACKDROP THEN backdropColor(h) ELSE SampleColor[l + 1]

\* Step 7 on one channel
\* the weighted sum without the clamp
alphaChan_unclamped(t, u, eva, evb) == (t * eva + u * evb) \div 16
alphaChan(t, u, eva, evb) ==
    IF (t * eva + u * evb) \div 16 > 31 THEN 31 ELSE (t * eva + u * evb) \div 16
brightenChan(t, evy) == t + ((31 - t) * evy) \div 16
darkenChan(t, evy) == t - (t * evy) \div 16

\* Step 7: the colour of the pixel from its top and second layer; semi says
\* that the top layer is a semi-transparent sprite
blendOut(h, y, mask, top, second, semi) ==
    LET r == resolveScanline(h, y)
        isSrc == top # BACKDROP /\ Bit(r.bldcnt, top) = 1
        isTgt == second # BACKDROP /\ Bit(r.bldcnt, 8 + second) = 1
        mode == IF semi THEN 1 ELSE Field(r.bldcnt, 6, 2)
        eva == Field(r.bldalpha, 0, 5)
        evb == Field(r.bldalpha, 8, 5)
        evy == Field(r.bldy, 0, 5)
        t == layerColor(h, top)
        u == layerColor(h, second)
    IN  IF Bit(mask, EFFECT_BIT) = 1 /\ isSrc
        THEN CASE mode = 1 /\ isTgt ->
                    rgb15(alphaChan(chan(t, 0), chan(u, 0), eva, evb),
                          alphaChan(chan(t, 1), chan(u, 1), eva, evb),
                          alphaChan(chan(t, 2), chan(u, 2), eva, evb))
               [] mode = 2 ->
                    rgb15(brightenChan(chan(t, 0), evy), brightenChan(chan(t, 1), evy),
                          brightenChan(chan(t, 2), evy))
               [] mode = 3 ->
                    rgb15(darkenChan(chan(t, 0), evy), darkenChan(chan(t, 1), evy),
                          darkenChan(chan(t, 2), evy))
               [] OTHER -> t
        ELSE t

\* the texels sampling hands on: backgrounds, then the sampled OAM entries
BgTexelS ==
    {<<t0, [idx |-> i1, bank |-> 0], [idx |-> i2, bank |-> 0], [idx |-> i3, bank |-> 0]>> :
        t0 \in {[idx |-> 0, bank |-> 0], [idx |-> 0, bank |-> 1], [idx |-> 1, bank |-> 0]},
        i1 \in {0, 1}, i2 \in {0, 255}, i3 \in {0, 1}}
ObjTexelS ==
    {(0 :> [idx |-> i, bank |-> 0, pri |-> p, mode |-> m])
        @@ (127 :> [idx |-> j, bank |-> 1, pri |-> 1, mode |-> n]) :
        i \in {0, 1}, p \in {1, 2}, m \in {"normal", "semi", "window"},
        j \in {0, 1}, n \in {"normal", "window"}}

\* the pixels composed: inside both rectangles of an authored scene, inside
\* the second only, inside the first only, inside neither
PixelXY == {<<10, 0>>, <<10, 1>>, <<100, 0>>, <<200, 159>>}

\* composePixel(x, y, snapshot): steps 1 and 4 to 7 on the texels of steps 2
\* and 3: the window, its mask, the top and the second layer and the colour
composePixelOf(h, x, y, bgT, objT) ==
    LET w == activeWindow(h, x, y, objT)
        mask == maskOf(h, w)
        S == contributors(h, mask, bgT, objT)
        top == CHOOSE l \in frontmost(h, objT, S) : TRUE
        second == CHOOSE l \in frontmost(h, objT, S \ {top}) : TRUE
    IN  [window |-> w, mask |-> mask, top |-> top, second |-> second,
         color |-> blendOut(h, y, mask, top, second,
                            top = OBJ_LAYER /\ objT[firstSprite(objT)].mode = "semi")]

\* one call of composePixel
composePixel ==
    /\ last.op \in {"start", "buildScene"}
    /\ \E xy \in PixelXY, bgs \in BgTexelS, objT \in ObjTexelS :
        LET x == xy[1]
            y == xy[2]
            bgT == [b \in 0 .. 3 |-> bgs[b + 1]]
            p == composePixelOf(hw, x, y, bgT, objT)
        IN  last' = [op |-> "composePixel", x |-> x, y |-> y, bgT |-> bgT,
                     objT |-> objT, window |-> p.window, mask |-> p.mask,
                     top |-> p.top, second |-> p.second, color |-> p.color]
    /\ MemUnchanged /\ RenderUnchanged
    /\ UNCHANGED <<io, REG, hw, site, nw>>

\* direct authoring of a snapshot: window rectangles and masks, blend words,
\* background priorities and enables, over a cleared or a demo scene
AuthorWinS ==
    {[win0 |-> [k \in 0 .. 3 |-> <<8, 0, 112, 1>>[k + 1]],
      win1 |-> [k \in 0 .. 3 |-> <<0, 0, 64, 2>>[k + 1]],
      winIn0 |-> m[1], winIn1 |-> m[2], winOut |-> m[3], winObj |-> m[4]] :
        m \in {<<51, 0, 31, 33>>, <<49, 18, 63, 36>>}}
AuthorFxS ==
    {[bldcnt |-> 130, bldalpha |-> 2056, bldy |-> 8, mosaic |-> 0],
     [bldcnt |-> 16208, bldalpha |-> 2056, bldy |-> 0, mosaic |-> 0],
     [bldcnt |-> 16209, bldalpha |-> 2056, bldy |-> 0, mosaic |-> 0],
     [bldcnt |-> 16209, bldalpha |-> 7967, bldy |-> 0, mosaic |-> 0]}
AuthorPriS == {<<2, 1, 1, 3>>, <<0, 2, 3, 1>>}
AuthorEnabledS == {<<1, 1, 1, 1>>, <<1, 1, 1, 0>>}

buildScene ==
    /\ last.op = "start"
    /\ \E base \in {HwZero, InitHwScene}, w \in AuthorWinS, f \in AuthorFxS,
          p \in AuthorPriS, e \in AuthorEnabledS :
        hw' = [base EXCEPT !.win = w, !.fx = f,
                           !.bg_params = [i \in 0 .. 3 |->
                                [base.bg_params[i] EXCEPT !.pri = p[i + 1],
                                                          !.enabled = e[i + 1]]]]
    /\ last' = [op |-> "buildScene"]
    /\ MemUnchanged /\ RenderUnchanged
    /\ UNCHANGED <<io, REG, site, nw>>

InitCompose ==
    /\ MirrorInit
    /\ hw = HwZero
    /\ RenderInit({0})
    /\ last = [op |-> "start"]
    /\ site = "output"
    /\ nw = 0

NextCompose ==
    \/ buildScene
    \/ composePixel

SpecCompose == InitCompose /\ [][NextCompose]_vars

\* ------------------------------------------ composition of a frame
\* the pixel an output word belongs to: row-major, frameWidth words a line
PixelOfSlot(i) == <<i % DEFAULT_FB_W, i \div DEFAULT_FB_W>>

\* the output words that are kept
FrameSlots == KeptSlots("outBuf")

\* what steps 2 and 3 hand on at a pixel is fixed by the snapshot; the
\* sampled outcomes
RasterTexelS ==
    {[bgT |-> [b \in 0 .. 3 |-> [idx |-> IF b = k THEN 1 ELSE 0, bank |-> 0]],
      objT |-> (0 :> [idx |-> k % 2, bank |-> 0, pri |-> 1, mode |-> "normal"])
                @@ (127 :> [idx |-> 0, bank |-> 0, pri |-> 1, mode |-> "normal"])] :
        k \in {0, 1}}

\* a worker that takes the word of the pixel to the left, once composed, for
\* its backdrop
pixelWord_carry(h, x, y, t, out) ==
    LET p == composePixelOf(h, x, y, t.bgT, t.objT)
        left == y * DEFAULT_FB_W + x - 1
    IN  IF p.top = BACKDROP /\ x > 0 /\ left \in DOMAIN out /\ out[left] # 0
        THEN out[left]
        ELSE p.color
\* the word a worker writes for pixel (x, y): the colour composePixel gives
\* (before the packing of step 8); the output buffer `out` is not read
pixelWord(h, x, y, t, out) == composePixelOf(h, x, y, t.bgT, t.objT).color

\* agbvk_dispatch_frame hands the frame to a grid of workers, one per pixel:
\* the first frame of a snapshot, or a second one of the same snapshot after
\* the first has been read back
composeFrame ==
    /\ \/ /\ last.op \in {"start", "buildScene"}
          /\ \E T \in [FrameSlots -> RasterTexelS] :
                last' = [op |-> "composeFrame", T |-> T, frame |-> 1, done |-> {}]
       \/ /\ last.op = "readFrame"
          /\ last' = [last EXCEPT !.op = "composeFrame", !.frame = 2, !.done = {}]
    /\ MemUnchanged /\ RenderUnchanged
    /\ UNCHANGED <<io, REG, hw, site, nw>>

\* one worker composes its pixel and writes its word; the workers run in
\* any order
composeWorker ==
    /\ last.op \in {"composeFrame", "composeWorker"}
    /\ \E i \in FrameSlots \ last.done :
        /\ ctx' = [ctx EXCEPT !.outBuf[i] =
                        pixelWord(hw, PixelOfSlot(i)[1], PixelOfSlot(i)[2],
                                  last.T[i], ctx.outBuf)]
        /\ last' = [last EXCEPT !.op = "composeWorker", !.done = @ \cup {i}]
    /\ MemUnchanged
    /\ UNCHANGED <<io, REG, hw, rgba, vk, oob, site, nw, nu, nf>>

\* the first frame is kept once every worker is done
readFrame ==
    /\ last.op = "composeWorker"
    /\ last.frame = 1
    /\ last.done = FrameSlots
    /\ rgba' = [n |-> Cardinality(FrameSlots), px |-> ctx.outBuf]
    /\ last' = [last EXCEPT !.op = "readFrame"]
    /\ MemUnchanged
    /\ UNCHANGED <<io, REG, hw, ctx, vk, oob, site, nw, nu, nf>>

NextRaster ==
    \/ buildScene
    \/ composeFrame
    \/ composeWorker
    \/ readFrame

SpecRaster == InitCompose /\ [][NextRaster]_vars

\* ---------------------------------------------- composition: sprite texels
\* the push constants both viewers dispatch with
OBJ_CHAR_BASE == 32768
OBJ_MAP_MODE == 0

\* Step 3: the object tile holding texel (lx, ly) of a sprite wTiles tiles
\* wide: 2D addressing (mode 0) takes the tile grid as 32 columns wide, 1D
\* addressing advances by the sprite's own width
objTile(baseTile, mode, wTiles, lx, ly) ==
    baseTile + (ly \div 8) * (IF mode = 0 THEN 32 ELSE wTiles) + (lx \div 8)

\* the VRAM byte holding that texel of a 4bpp sprite: 32 bytes a tile, 4 a row
objByte4(objCharBase, tile, lx, ly) ==
    objCharBase + tile * 32 + (ly % 8) * 4 + ((lx % 8) \div 2)

\* the 4-bit index of texel lx in byte b, with either nibble holding the
\* left texel
nibbleOf(b, lx, lowFirst) ==
    IF (lx % 2 = 0) = lowFirst THEN b % 16 ELSE b \div 16

\* width = height in pixels of a square sprite of size field s
squareSize(s) == <<8, 16, 32, 64>>[s + 1]

\* ------------------------------------------ composition: sampling (step 2, 3)
\* the invocation parameters a frame is dispatched with
SampleParamS ==
    {[mapWidth |-> w, mapHeight |-> w, objCharBase |-> o, objMapMode |-> OBJ_MAP_MODE] :
        w \in {32, 128}, o \in {OBJ_CHAR_BASE, AGB_VRAM_SIZE - 32}}

\* what a sample hands on when the layer has nothing at the pixel
noTexel(reads) == [idx |-> 0, bank |-> 0, reads |-> reads, u |-> 0, v |-> 0]

\* a byte address inside video memory
inVram(a) == a >= 0 /\ a < AGB_VRAM_SIZE

\* the map-space point of pixel (x, y): the 8.8 transform applied to the
\* pixel, from the reference point, down to whole map pixels
affinePoint(a, x, y) ==
    <<Asr32(a.refX + a.pa * x + a.pb * y, 8), Asr32(a.refY + a.pc * x + a.pd * y, 8)>>

\* a tile reference followed without asking whether it lies in video memory
tileOk_unchecked(addr) == TRUE
\* a tile reference is followed only inside video memory
tileOk(addr) == inVram(addr)

\* the coordinate an affine sample leaves the map with when the wrap flag is
\* taken as always clear
wrapCoord_clamp(c, size, wrap) == c
\* wrap modulo the map size when the wrap flag is set
wrapCoord(c, size, wrap) == IF wrap THEN c % size ELSE c

\* Step 2, affine mode.  entry is the byte the map holds at the cell and
\* byte the byte the tile holds at the texel; reads are the video-memory
\* addresses looked at.  A map entry is 1 byte, a tile 64 bytes (8bpp).
affineSample(bg, a, P, x, y, entry, byte) ==
    LET p == affinePoint(a, x, y)
        w == P.mapWidth * 8
        ht == P.mapHeight * 8
        wrap == Bit(bg.flags, 1) = 1
        u == wrapCoord(p[1], w, wrap)
        v == wrapCoord(p[2], ht, wrap)
        inside == u >= 0 /\ u < w /\ v >= 0 /\ v < ht
        mapAddr == bg.screenBase + (v \div 8) * P.mapWidth + (u \div 8)
        tileAddr == bg.charBase + entry * 64 + (v % 8) * 8 + (u % 8)
    IN  IF ~inside THEN [noTexel({}) EXCEPT !.u = u, !.v = v]
        ELSE IF ~inVram(mapAddr) THEN [noTexel({}) EXCEPT !.u = u, !.v = v]
        ELSE IF ~tileOk(tileAddr) THEN [noTexel({mapAddr}) EXCEPT !.u = u, !.v = v]
        ELSE [idx |-> byte, bank |-> 0, reads |-> {mapAddr, tileAddr}, u |-> u, v |-> v]

\* mosaic: a coordinate truncated to the origin of its block of g pixels
mosaicCoord(c, on, g) == IF on /\ g > 1 THEN c - (c % g) ELSE c

\* Step 2, text mode.  entry is the 16-bit map entry at the cell (tile
\* index 0..1023, h flip, v flip, palette bank), byte the tile byte at the
\* texel, bpp the colour depth (4 or 8).  The map repeats in both axes.
textSample(h, b, P, x, y, entry, byte, bpp) ==
    LET bg == h.bg_params[b]
        r == resolveScanline(h, y)
        on == Bit(bg.flags, 2) = 1
        u == (mosaicCoord(x, on, Field(h.fx.mosaic, 0, 4)) + r.hofs[b]) % (P.mapWidth * 8)
        v == (mosaicCoord(y, on, Field(h.fx.mosaic, 4, 4)) + r.vofs[b]) % (P.mapHeight * 8)
        mapAddr == bg.screenBase + 2 * ((v \div 8) * P.mapWidth + (u \div 8))
        tile == Field(entry, 0, 10)
        tx == IF Bit(entry, 10) = 1 THEN 7 - (u % 8) ELSE u % 8
        ty == IF Bit(entry, 11) = 1 THEN 7 - (v % 8) ELSE v % 8
        tileAddr == IF bpp = 8 THEN bg.charBase + tile * 64 + ty * 8 + tx
                    ELSE bg.charBase + tile * 32 + ty * 4 + (tx \div 2)
    IN  IF ~(inVram(mapAddr) /\ inVram(mapAddr + 1)) THEN [noTexel({}) EXCEPT !.u = u, !.v = v]
        ELSE IF ~tileOk(tileAddr)
        THEN [noTexel({mapAddr, mapAddr + 1}) EXCEPT !.u = u, !.v = v]
        ELSE [idx |-> IF bpp = 8 THEN byte ELSE nibbleOf(byte, tx, TRUE),
              bank |-> IF bpp = 8 THEN 0 ELSE Field(entry, 12, 4),
              reads |-> {mapAddr, mapAddr + 1, tileAddr}, u |-> u, v |-> v]

\* Step 3 for one non-affine square 4bpp sprite: attr are its three
\* attribute words, byte the tile byte at the texel
spriteSample(attr, P, x, y, byte) ==
    LET sy == Field(attr[1], 0, 8)
        sx == Field(attr[2], 0, 9)
        size == squareSize(Field(attr[2], 14, 2))
        hidden == Bit(attr[1], 8) = 0 /\ Bit(attr[1], 9) = 1
        lx0 == x - sx
        ly0 == y - sy
        lx == IF Bit(attr[2], 12) = 1 THEN size - 1 - lx0 ELSE lx0
        ly == IF Bit(attr[2], 13) = 1 THEN size - 1 - ly0 ELSE ly0
        tile == objTile(Field(attr[3], 0, 10), P.objMapMode, size \div 8, lx, ly)
        addr == objByte4(P.objCharBase, tile, lx, ly)
    IN  IF hidden \/ lx0 < 0 \/ lx0 >= size \/ ly0 < 0 \/ ly0 >= size THEN noTexel({})
        ELSE IF ~tileOk(addr) THEN noTexel({})
        ELSE [idx |-> nibbleOf(byte, lx, TRUE), bank |-> Field(attr[3], 12, 4),
              reads |-> {addr}, u |-> lx, v |-> ly]

\* the colour of palette entry c of a palette of size bytes holding lo, hi
\* there: 15 bits, the high bit unused; -1 when c lies beyond the palette
paletteColor(size, c, lo, hi) ==
    IF 2 * c + 1 >= size THEN -1 ELSE (lo + W8 * hi) % 32768

\* the snapshots sampled: the demo scene with one background authored
AuthorAffS ==
    {[refX |-> rx, refY |-> ry, pa |-> m[1], pb |-> m[2], pc |-> m[3], pd |-> m[4]] :
        rx \in {-2048, 0, 20528, 65536, 262144}, ry \in {-256, 7968},
        m \in {<<256, 0, 0, 256>>, <<166, -96, 96, 166>>}}
AuthorCharBaseS == {0, 24576, AGB_VRAM_SIZE - 64, AGB_VRAM_SIZE}
AuthorScreenBaseS == {0, 90112, AGB_VRAM_SIZE - 1, AGB_VRAM_SIZE}
AuthorScrollS == {<<0, 0>>, <<12, 7>>, <<65535, 511>>}

authorBackground ==
    /\ last.op = "start"
    /\ \/ \E a \in AuthorAffS, cb \in AuthorCharBaseS, sb \in AuthorScreenBaseS,
             wrap \in {0, AGB_BG_FLAG_WRAP} :
            /\ hw' = [InitHwScene EXCEPT
                        !.bg_params[2] = [charBase |-> cb, screenBase |-> sb, hofs |-> 0,
                                          vofs |-> 0, pri |-> 0, enabled |-> 1,
                                          flags |-> AGB_BG_FLAG_AFFINE + wrap, pad |-> 0],
                        !.bgAff[2] = a]
            /\ last' = [op |-> "authorBackground", b |-> 2]
       \/ \E s \in AuthorScrollS, cb \in AuthorCharBaseS, sb \in AuthorScreenBaseS,
             mo \in {0, AGB_BG_FLAG_MOSAIC} :
            /\ hw' = [InitHwScene EXCEPT
                        !.bg_params[0] = [charBase |-> cb, screenBase |-> sb, hofs |-> s[1],
                                          vofs |-> s[2], pri |-> 0, enabled |-> 1,
                                          flags |-> mo, pad |-> 0]]
            /\ last' = [op |-> "authorBackground", b |-> 0]
    /\ MemUnchanged /\ RenderUnchanged
    /\ UNCHANGED <<io, REG, site, nw>>

\* the pixels sampled, the map entries and the tile bytes met
SampleXY == {<<0, 0>>, <<120, 1>>, <<239, 159>>}
AffEntryS == {0, 1, 255}
TextEntryS == {0, 1025, 65535}
TileByteS == {0, 33, 255}
PalByteS == {<<31, 0>>, <<255, 255>>}

\* the record of one sample: the texel, what composePixel makes of it with
\* every other layer transparent, and the colour its palette entry resolves to
sampled(op, b, P, xy, in, t, pal) ==
    LET bgT == [i \in 0 .. 3 |-> IF i = b THEN [idx |-> t.idx, bank |-> t.bank]
                                 ELSE [idx |-> 0, bank |-> 0]]
        objT == [i \in ObjIdxS |->
                    IF b = OBJ_LAYER /\ i = 0
                    THEN [idx |-> t.idx, bank |-> t.bank, pri |-> 0, mode |-> "normal"]
                    ELSE [idx |-> 0, bank |-> 0, pri |-> 0, mode |-> "normal"]]
        p == composePixelOf(hw, xy[1], xy[2], bgT, objT)
    IN  [op |-> op, b |-> b, P |-> P, x |-> xy[1], y |-> xy[2], in |-> in, texel |-> t,
         palette |-> paletteColor(IF b = OBJ_LAYER THEN AGB_PAL_OBJ_SIZE ELSE AGB_PAL_BG_SIZE,
                                  16 * t.bank + t.idx, pal[1], pal[2]),
         top |-> p.top, color |-> p.color]

\* step 2 for the authored background at one pixel
sampleBackground ==
    /\ last.op = "authorBackground"
    /\ \E b \in {last.b}, P \in {Q \in SampleParamS : Q.objCharBase = OBJ_CHAR_BASE},
          xy \in SampleXY, byte \in TileByteS, pal \in PalByteS :
        \/ /\ Bit(hw.bg_params[b].flags, 0) = 1
           /\ \E e \in AffEntryS :
                last' = sampled("sampleBackground", b, P, xy,
                                [entry |-> e, byte |-> byte, bpp |-> 8],
                                affineSample(hw.bg_params[b], hw.bgAff[b], P,
                                             xy[1], xy[2], e, byte), pal)
        \/ /\ Bit(hw.bg_params[b].flags, 0) = 0
           /\ \E e \in TextEntryS, bpp \in {4, 8} :
                last' = sampled("sampleBackground", b, P, xy,
                                [entry |-> e, byte |-> byte, bpp |-> bpp],
                                textSample(hw, b, P, xy[1], xy[2], e, byte, bpp), pal)
    /\ MemUnchanged /\ RenderUnchanged
    /\ UNCHANGED <<io, REG, hw, site, nw>>

\* the attribute words of the sprites sampled: the scene's sprite 0 moved
\* to the top line, the same flipped with the last tile and bank, a hidden one
SpriteAttrS == {<<0, 16396, 1024>>, <<0, 16396 + 12288, 65535>>, <<512, 16396, 1024>>}

\* step 3 for one sprite at one pixel
sampleSprite ==
    /\ last.op = "authorBackground"
    /\ \E attr \in SpriteAttrS, P \in {Q \in SampleParamS : Q.mapWidth = 32}, xy \in {<<12, 1>>, <<20, 1>>, <<120, 1>>},
          byte \in TileByteS, pal \in PalByteS :
        last' = sampled("sampleSprite", OBJ_LAYER, P, xy,
                        [entry |-> attr[3], byte |-> byte, bpp |-> 4],
                        spriteSample(attr, P, xy[1], xy[2], byte), pal)
    /\ MemUnchanged /\ RenderUnchanged
    /\ UNCHANGED <<io, REG, hw, site, nw>>

NextSample ==
    \/ authorBackground
    \/ sampleBackground
    \/ sampleSprite

SpecSample == InitCompose /\ [][NextSample]_vars

\* ------------------------------------------------------------ claims
Captured == last.op = "snapshot_to"

\* C1: after snapshot_to, for every background i, charBase is 16384 times
\* bits 2..3 of BG_CNT[i] and screenBase is 2048 times bits 8..12 of it, so
\* both are fixed by those bits alone.
C1_BaseDecode ==
    Captured =>
        \A i \in 0 .. 3 :
            /\ hw.bg_params[i].charBase = 16384 * ((REG.BG_CNT[i] \div 4) % 4)
            /\ hw.bg_params[i].screenBase = 2048 * ((REG.BG_CNT[i] \div 256) % 32)

\* a capture of a control word with every bit set
C1_Witness ==
    /\ Captured
    /\ \E i \in 0 .. 3 :
        /\ REG.BG_CNT[i] = 65535
        /\ hw.bg_params[i].charBase = 49152
        /\ hw.bg_params[i].screenBase = 63488

\* C2: after snapshot_to, the flags of background i have the AFFINE bit set
\* exactly when i is 2 or 3 and the MOSAIC bit set exactly when bit 6 of
\* BG_CNT[i] is set.
C2_Flags ==
    Captured =>
        \A i \in 0 .. 3 :
            /\ (hw.bg_params[i].flags % 2 = 1) <=> (i \in {2, 3})
            /\ ((hw.bg_params[i].flags \div 4) % 2 = 1) <=> ((REG.BG_CNT[i] \div 64) % 2 = 1)

\* a capture with bit 6 set in BG2CNT only: BG2 is affine and mosaic
C2_Witness ==
    /\ Captured
    /\ REG.BG_CNT[2] = 64
    /\ hw.bg_params[2].flags = 5
    /\ hw.bg_params[0].flags = 0
    /\ hw.bg_params[3].flags = 1

\* the int16_t a register holds, and the int32_t the I/O array holds at off
Int16Of(p) == IF p < 32768 THEN p ELSE p - 65536
IoInt32(k) == io[k] + 65536 * Int16Of(io[k + 1])
\* r = x >> 20 with the sign kept: x = r * 2^20 + a remainder in 0 .. 2^20 - 1
IsAsr20(x, r) == (x - r * 1048576) \in 0 .. 1048575 /\ (x < 0 => r < 0)

\* C3: after snapshot_to, bgAff[2] and bgAff[3] hold refX = BGxX >> 20 and
\* refY = BGxY >> 20 (arithmetic) and pa..pd as the int16_t values of the
\* registers; when the capture follows sync_io_to_gba_state directly, BG2's
\* record is that of the I/O register array.
C3_Affine ==
    Captured =>
        /\ IsAsr20(REG.BG2X, hw.bgAff[2].refX) /\ IsAsr20(REG.BG2Y, hw.bgAff[2].refY)
        /\ IsAsr20(REG.BG3X, hw.bgAff[3].refX) /\ IsAsr20(REG.BG3Y, hw.bgAff[3].refY)
        /\ hw.bgAff[2].pa = Int16Of(REG.BG2PA) /\ hw.bgAff[2].pb = Int16Of(REG.BG2PB)
        /\ hw.bgAff[2].pc = Int16Of(REG.BG2PC) /\ hw.bgAff[2].pd = Int16Of(REG.BG2PD)
        /\ hw.bgAff[3].pa = Int16Of(REG.BG3PA) /\ hw.bgAff[3].pb = Int16Of(REG.BG3PB)
        /\ hw.bgAff[3].pc = Int16Of(REG.BG3PC) /\ hw.bgAff[3].pd = Int16Of(REG.BG3PD)
        /\ last.synced =>
            /\ IsAsr20(IoInt32(OFFSET_REG_BG2X \div 2), hw.bgAff[2].refX)
            /\ IsAsr20(IoInt32(OFFSET_REG_BG2Y \div 2), hw.bgAff[2].refY)
            /\ hw.bgAff[2].pa = Int16Of(io[OFFSET_REG_BG2PA \div 2])
            /\ hw.bgAff[2].pb = Int16Of(io[OFFSET_REG_BG2PB \div 2])
            /\ hw.bgAff[2].pc = Int16Of(io[OFFSET_REG_BG2PC \div 2])
            /\ hw.bgAff[2].pd = Int16Of(io[OFFSET_REG_BG2PD \div 2])

\* REG_BG2X = INT32_MIN written to the I/O array, synced and captured: the
\* origin stays negative
C3_Witness ==
    /\ Captured
    /\ last.synced
    /\ io[OFFSET_REG_BG2X \div 2 + 1] = 32768
    /\ hw.bgAff[2].refX = -2048

\* C4: after snapshot_to the four window masks are the 6-bit fields of WININ
\* and WINOUT, win0 is (WIN0H_x1, WIN0V_y1, WIN0H_x2, WIN0V_y2) with every
\* coordinate in 0..255, and the blend words equal BLDCNT, BLDALPHA, BLDY and
\* MOSAIC of the mirror.
C4_WindowBlend ==
    Captured =>
        /\ hw.win.winIn0 = REG.WININ % 64
        /\ hw.win.winIn1 = (REG.WININ \div 256) % 64
        /\ hw.win.winOut = REG.WINOUT % 64
        /\ hw.win.winObj = (REG.WINOUT \div 256) % 64
        /\ \A m \in {hw.win.winIn0, hw.win.winIn1, hw.win.winOut, hw.win.winObj} : m \in 0 .. 63
        /\ hw.win.win0 = [k \in 0 .. 3 |->
                <<REG.WIN0H_x1, REG.WIN0V_y1, REG.WIN0H_x2, REG.WIN0V_y2>>[k + 1]]
        /\ \A k \in 0 .. 3 : hw.win.win0[k] \in 0 .. 255
        /\ hw.fx.bldcnt = REG.BLDCNT
        /\ hw.fx.bldalpha = REG.BLDALPHA
        /\ hw.fx.bldy = REG.BLDY
        /\ hw.fx.mosaic = REG.MOSAIC

\* REG_WIN0H = 0x6AD5 written to the I/O array, synced and captured
C4_Witness ==
    /\ Captured
    /\ io[OFFSET_REG_WIN0H \div 2] = 27349
    /\ hw.win.win0[0] = 213
    /\ hw.win.win0[2] = 106
    /\ hw.win.win0[1] = 0

\* C5: after snapshot_to every word of every scanline record is zero, so
\* the override flag is clear on every line, whatever the target held.
C5_ScanZero ==
    Captured =>
        \A y \in DOMAIN hw.scan :
            /\ \A i \in 0 .. 3 : hw.scan[y].hofs[i] = 0 /\ hw.scan[y].vofs[i] = 0
            /\ hw.scan[y].win0x1 = 0 /\ hw.scan[y].win0x2 = 0
            /\ hw.scan[y].p0 = 0 /\ hw.scan[y].p1 = 0
            /\ hw.scan[y].win1x1 = 0 /\ hw.scan[y].win1x2 = 0
            /\ hw.scan[y].p2 = 0 /\ hw.scan[y].p3 = 0
            /\ hw.scan[y].bldcnt = 0 /\ hw.scan[y].bldalpha = 0
            /\ hw.scan[y].bldy = 0 /\ hw.scan[y].flags = 0

\* a capture into a target whose scanline records were not zero
C5_Witness ==
    /\ Captured
    /\ last.stale
    /\ hw.scan[AGB_SCANLINES - 1].flags = 0

\* the last call was made with a null pointer
NullCall ==
    \/ last.op = "agb_init_hw" /\ last.hwp = "null"
    \/ last.op = "agb_sync_to_renderer" /\ (last.hwp = "null" \/ last.ctxp = "null")

\* C6: a call of agb_init_hw with a null state, or of agb_sync_to_renderer
\* with a null state or a null context, returns and leaves the mirror, the
\* host state, every renderer buffer and the renderer's status as they were.
C6_NullRejected ==
    [][NullCall' =>
        UNCHANGED <<io, REG, VRAM, PAL_BG, PAL_OBJ, OAM, hw, ctx, rgba, vk, oob, nu, nf>>]_vars

\* agb_sync_to_renderer(NULL, ctx) after the scene was authored: the buffers
\* still hold what they held when they were created
C6_Witness ==
    /\ last.op = "agb_sync_to_renderer"
    /\ last.hwp = "null"
    /\ last.ctxp = "valid"
    /\ hw = InitHwScene
    /\ ctx = CtxCreated(-842150451)
    /\ Running

\* C7: an upload or a readback whose count differs from the capacity of its
\* buffer is rejected: the buffer is as before the call, nothing is copied to
\* the caller, and nothing past the end of a buffer has been accessed.
C7_MismatchRejected ==
    ("cap" \in DOMAIN last /\ last.n # last.cap) =>
        /\ ctx[last.buf] = last.before
        /\ oob = {}
        /\ (last.op = "agbvk_readback_rgba" /\ last.n > 0) => rgba.n # last.n

\* C8: after a byte upload of n bytes has returned, slot i of the destination
\* is source byte i, a value in 0..255, for i < n, and every slot from n on
\* holds what it held before.
C8_ByteExpand ==
    (/\ last.op \in {"agbvk_upload_vram", "agbvk_upload_pal_bg",
                     "agbvk_upload_pal_obj", "agbvk_upload_oam"}
     /\ Running) =>
        \A s \in DOMAIN ctx[last.buf] :
            IF s < last.n
            THEN /\ ctx[last.buf][s] = (last.v + 7 * s) % 256
                 /\ ctx[last.buf][s] \in 0 .. 255
            ELSE ctx[last.buf][s] = last.before[s]

\* agbvk_upload_vram of the single byte 0xFF into a buffer holding 0xCDCDCDCD
C8_Witness ==
    /\ last.op = "agbvk_upload_vram"
    /\ last.n = 1
    /\ Running
    /\ ctx.vramBuf[0] = 255
    /\ ctx.vramBuf[1] = -842150451

\* the buffer bound at binding k
Bound(k) == ctx[BindingOf[k + 1]]

\* C9: after agb_sync_to_renderer(hw, ctx) with both pointers valid, the
\* buffers at bindings 1..10, read in their documented layouts, hold every
\* memory byte and every register word of hw.
C9_RoundTrip ==
    (last.op = "agb_sync_to_renderer" /\ last.hwp = "valid" /\ last.ctxp = "valid"
        /\ Running) =>
        /\ \A a \in DOMAIN hw.vram : Bound(1)[a] = hw.vram[a]
        /\ \A a \in DOMAIN hw.pal_bg : Bound(2)[a] = hw.pal_bg[a]
        /\ \A a \in DOMAIN hw.pal_obj : Bound(4)[a] = hw.pal_obj[a]
        /\ \A a \in DOMAIN hw.oam : Bound(5)[a] = hw.oam[a]
        /\ \A i \in 0 .. 3 :
            /\ Bound(3)[8 * i] = hw.bg_params[i].charBase
            /\ Bound(3)[8 * i + 1] = hw.bg_params[i].screenBase
            /\ Bound(3)[8 * i + 2] = hw.bg_params[i].hofs
            /\ Bound(3)[8 * i + 3] = hw.bg_params[i].vofs
            /\ Bound(3)[8 * i + 4] = hw.bg_params[i].pri
            /\ Bound(3)[8 * i + 5] = hw.bg_params[i].enabled
            /\ Bound(3)[8 * i + 6] = hw.bg_params[i].flags
            /\ Bound(3)[8 * i + 7] = hw.bg_params[i].pad
        /\ \A k \in 0 .. 3 :
            /\ Bound(6)[k] = hw.win.win0[k]
            /\ Bound(6)[4 + k] = hw.win.win1[k]
        /\ Bound(6)[8] = hw.win.winIn0 /\ Bound(6)[9] = hw.win.winIn1
        /\ Bound(6)[10] = hw.win.winOut /\ Bound(6)[11] = hw.win.winObj
        /\ Bound(7)[0] = hw.fx.bldcnt /\ Bound(7)[1] = hw.fx.bldalpha
        /\ Bound(7)[2] = hw.fx.bldy /\ Bound(7)[3] = hw.fx.mosaic
        /\ \A y \in DOMAIN hw.scan :
            /\ \A i \in 0 .. 3 :
                /\ Bound(8)[20 * y + i] = hw.scan[y].hofs[i]
                /\ Bound(8)[20 * y + 4 + i] = hw.scan[y].vofs[i]
            /\ Bound(8)[20 * y + 8] = hw.scan[y].win0x1
            /\ Bound(8)[20 * y + 9] = hw.scan[y].win0x2
            /\ Bound(8)[20 * y + 10] = hw.scan[y].p0
            /\ Bound(8)[20 * y + 11] = hw.scan[y].p1
            /\ Bound(8)[20 * y + 12] = hw.scan[y].win1x1
            /\ Bound(8)[20 * y + 13] = hw.scan[y].win1x2
            /\ Bound(8)[20 * y + 14] = hw.scan[y].p2
            /\ Bound(8)[20 * y + 15] = hw.scan[y].p3
            /\ Bound(8)[20 * y + 16] = hw.scan[y].bldcnt
            /\ Bound(8)[20 * y + 17] = hw.scan[y].bldalpha
            /\ Bound(8)[20 * y + 18] = hw.scan[y].bldy
            /\ Bound(8)[20 * y + 19] = hw.scan[y].flags
        /\ \A i \in 0 .. 3 :
            /\ Bound(9)[6 * i] = hw.bgAff[i].refX
            /\ Bound(9)[6 * i + 1] = hw.bgAff[i].refY
            /\ Bound(9)[6 * i + 2] = hw.bgAff[i].pa
            /\ Bound(9)[6 * i + 3] = hw.bgAff[i].pb
            /\ Bound(9)[6 * i + 4] = hw.bgAff[i].pc
            /\ Bound(9)[6 * i + 5] = hw.bgAff[i].pd
        /\ \A i \in DOMAIN hw.objAff :
            /\ Bound(10)[4 * i] = hw.objAff[i].pa
            /\ Bound(10)[4 * i + 1] = hw.objAff[i].pb
            /\ Bound(10)[4 * i + 2] = hw.objAff[i].pc
            /\ Bound(10)[4 * i + 3] = hw.objAff[i].pd

\* the authored scene synced: BG2's pb = -96 is word 15 of binding 9 and the
\* backdrop colour's low byte is slot 0 of binding 2
C9_Witness ==
    /\ last.op = "agb_sync_to_renderer"
    /\ last.hwp = "valid"
    /\ last.ctxp = "valid"
    /\ hw = InitHwScene
    /\ ctx.affBuf[15] = -96
    /\ ctx.palBuf[0] = 16
    /\ ctx.oamBuf[0] = 12
\* C10: agbvk_dispatch_frame returns only when the fence of its submission
\* is signaled and the queue is idle; so whenever the caller is outside the
\* call no work is pending, and no upload or readback has run while the
\* backend was executing.
C10_BlockingRoundTrip ==
    /\ vk.pc = "idle" => (vk.gpu = "idle" /\ (nf > 0 => vk.fence = "signaled"))
    /\ ~vk.overlap

\* a readback of the whole frame after a dispatch has returned: it sees the
\* pixels the backend wrote
C10_Witness ==
    /\ last.op = "agbvk_readback_rgba"
    /\ nf > 0
    /\ rgba.n = DEFAULT_FB_W * DEFAULT_FB_H
    /\ rgba.px[0] = -1
    /\ rgba.px = ctx.outBuf
    /\ Running

\* C11: a backend call that does not return VK_SUCCESS ends the process after
\* the call is named on std::cerr, and nothing runs afterwards; when
\* enumeration finds no device, or no device has a compute queue family,
\* agbvk_create throws and the caller gets no context.
C11_FailStop ==
    /\ [](vk.err # "none" => vk.failed = "terminated" /\ vk.reported = vk.err)
    /\ []((last.op = "agbvk_create" /\ vk.err = "none"
            /\ (last.pdCount = 0 \/ ~last.compute)) =>
                /\ vk.failed = "exception"
                /\ vk.handle = "none"
                /\ vk.what = IF last.pdCount = 0 THEN Throws.pdCount ELSE Throws.phys)
    /\ [][vk.failed # "terminated"]_vars

C11_Witness ==
    /\ vk.failed = "terminated"
    /\ vk.reported = "vkQueueSubmit"
    /\ vk.handle = "ctx"

\* C12: after snapshot_to(hw) every field of hw is determined by the mirror
\* alone: the target equals the capture of the same mirror into a zeroed
\* target, whatever the target held before.
C12_Wholesale == last.op = "snapshot_to" => hw = SnapshotOf(HwZero)

\* a step of the caller that writes the mirror or reloads gba::REG
MirrorStep ==
    last'.op \in {"IoWrite16", "IoWrite32", "RegWrite", "MemWrite", "DmaFill16",
                  "sync_io_to_gba_state"}

\* C13: a write to the mirror memories, to gba::REG or to the I/O array, a
\* DMA fill and sync_io_to_gba_state leave every field of hw as it was, in
\* particular when hw holds a capture.
C13_Isolated == [][MirrorStep => hw' = hw]_vars

C13_Witness ==
    /\ last.op = "DmaFill16"
    /\ hw.bg_params[0].enabled = 1
    /\ VRAM[0] = 213 /\ hw.vram[0] = 0

\* the I/O register at byte offset off has been written: io_registers is
\* zero-initialised and every value written is non-zero
Written(off) == IoAt(off) # 0

\* C14: whatever the order of I/O-array writes, memory writes,
\* sync_io_to_gba_state and snapshot_to, the snapshot reflects every write
\* that preceded the capture: its memories are the mirror memories and each
\* register field whose I/O register was written holds the decode of the
\* value written.
C14_ConsistentCut ==
    Captured =>
        /\ hw.vram = VRAM /\ hw.pal_bg = PAL_BG /\ hw.pal_obj = PAL_OBJ /\ hw.oam = OAM
        /\ \A i \in 0 .. 3 :
            /\ Written(OFFSET_REG_BG0HOFS + i * 4) =>
                    hw.bg_params[i].hofs = IoAt(OFFSET_REG_BG0HOFS + i * 4)
            /\ Written(OFFSET_REG_BG0VOFS + i * 4) =>
                    hw.bg_params[i].vofs = IoAt(OFFSET_REG_BG0VOFS + i * 4)
        /\ Written(OFFSET_REG_WININ) =>
                hw.win.winIn0 = Field(IoAt(OFFSET_REG_WININ), 0, 6)
        /\ Written(OFFSET_REG_WINOUT) =>
                hw.win.winOut = Field(IoAt(OFFSET_REG_WINOUT), 0, 6)
        /\ Written(OFFSET_REG_BLDCNT) => hw.fx.bldcnt = IoAt(OFFSET_REG_BLDCNT)
        /\ Written(OFFSET_REG_BLDALPHA) => hw.fx.bldalpha = IoAt(OFFSET_REG_BLDALPHA)
        /\ Written(OFFSET_REG_BG2PA) =>
                hw.bgAff[2].pa = SExt16(IoAt(OFFSET_REG_BG2PA))

\* hw holds the scene of agb_init_hw
SceneBuilt == last.op = "agb_init_hw" /\ last.hwp = "valid"

\* the layers a 6-bit window mask enables: bits 0..3 BG0..BG3, 4 OBJ, 5 blend
MaskLayers(mask) == {k \in 0 .. 5 : Bit(mask, k) = 1}

\* C15: in the scene of agb_init_hw Window0 is (8,8)-(112,56), its inside
\* mask enables exactly BG1, OBJ and the blend effect, and the outside mask
\* enables BG0..BG3 and OBJ without the blend effect.
C15_Window0Mask ==
    SceneBuilt =>
        /\ hw.win.win0 = [k \in 0 .. 3 |-> <<8, 8, 112, 56>>[k + 1]]
        /\ MaskLayers(hw.win.winIn0) = {1, 4, 5}
        /\ MaskLayers(hw.win.winOut) = {0, 1, 2, 3, 4}

\* C16: in the scene of agb_init_hw, on every line the blend words in
\* effect after scanline resolve are the frame-global ones (brighten, BG1 as
\* source, EVY = 8), the Window0 extent in effect is 8..112, and the scroll
\* of BG1..BG3 and the vertical scroll of BG0 are the frame-global ones.
C16_ScrollOnly ==
    SceneBuilt =>
        \A y \in DOMAIN hw.scan :
            LET r == resolveScanline(hw, y)
            IN  /\ r.bldcnt = hw.fx.bldcnt /\ r.bldalpha = hw.fx.bldalpha
                /\ r.bldy = hw.fx.bldy
                /\ Field(r.bldcnt, 6, 2) = 2 /\ Bit(r.bldcnt, 1) = 1 /\ r.bldy = 8
                /\ r.win0x1 = 8 /\ r.win0x2 = 112
                /\ \A i \in 1 .. 3 : r.hofs[i] = hw.bg_params[i].hofs
                /\ \A i \in 0 .. 3 : r.vofs[i] = hw.bg_params[i].vofs

\* C17: in the scene of agb_init_hw, dispatched with 2D object tile
\* addressing, OAM entry 0 is a non-affine square 16x16 4bpp sprite at (12,12)
\* with base tile 0 and priority 1, and every one of its texels is palette
\* index 1.
C17_SolidSprite ==
    SceneBuilt =>
        LET attr0 == SceneOamAttr(0, 0)
            attr1 == SceneOamAttr(0, 1)
            attr2 == SceneOamAttr(0, 2)
            size == squareSize(Field(attr1, 14, 2))
        IN  /\ Field(attr0, 0, 8) = 12 /\ Field(attr1, 0, 9) = 12
            /\ Field(attr0, 8, 2) = 0 /\ Bit(attr0, 13) = 0 /\ Field(attr0, 14, 2) = 0
            /\ size = 16
            /\ Field(attr2, 0, 10) = 0 /\ Field(attr2, 10, 2) = 1
            /\ \A lx \in 0 .. size - 1, ly \in 0 .. size - 1, lowFirst \in BOOLEAN :
                nibbleOf(SceneVram(objByte4(OBJ_CHAR_BASE,
                            objTile(Field(attr2, 0, 10), OBJ_MAP_MODE, size \div 8, lx, ly),
                            lx, ly)),
                         lx, lowFirst) = 1

\* a pixel has been composed
Composed == last.op = "composePixel"

\* the pixel of the last composePixel lies in Window0, in Window1, with the
\* horizontal extents in effect on its line
InWin0 ==
    LET r == resolveScanline(hw, last.y)
    IN  /\ r.win0x1 <= last.x /\ last.x < r.win0x2
        /\ hw.win.win0[1] <= last.y /\ last.y < hw.win.win0[3]
InWin1 ==
    LET r == resolveScanline(hw, last.y)
    IN  /\ r.win1x1 <= last.x /\ last.x < r.win1x2
        /\ hw.win.win1[1] <= last.y /\ last.y < hw.win.win1[3]
\* ... under an opaque texel of an OBJ-window sprite
InObjWin ==
    \E i \in DOMAIN last.objT : last.objT[i].mode = "window" /\ last.objT[i].idx # 0

\* C18: the mask in effect at a pixel is winIn0 inside Window0 (also when
\* inside Window1), winIn1 inside Window1 only, winObj inside neither but
\* under an opaque OBJ-window texel, winOut elsewhere; a layer whose bit is
\* clear in that mask is neither the top nor the second layer.
C18_WindowPrecedence ==
    Composed =>
        /\ InWin0 => last.mask = hw.win.winIn0
        /\ (~InWin0 /\ InWin1) => last.mask = hw.win.winIn1
        /\ (~InWin0 /\ ~InWin1 /\ InObjWin) => last.mask = hw.win.winObj
        /\ (~InWin0 /\ ~InWin1 /\ ~InObjWin) => last.mask = hw.win.winOut
        /\ \A l \in 0 .. OBJ_LAYER :
            Bit(last.mask, l) = 0 => last.top # l /\ last.second # l

C18_Witness ==
    /\ Composed
    /\ InWin0 /\ InWin1 /\ InObjWin
    /\ hw.win.winIn0 = 49 /\ hw.win.winIn1 = 18
    /\ last.bgT[1].idx = 1 /\ hw.bg_params[1].enabled = 1
    /\ last.top = 0

\* the sprite that sampling tracked at the last pixel: the lowest OAM index
\* with an opaque texel among the sprites of the visible pass
Tracked ==
    CHOOSE i \in DOMAIN last.objT :
        /\ last.objT[i].mode # "window" /\ last.objT[i].idx # 0
        /\ \A j \in DOMAIN last.objT :
            (last.objT[j].mode # "window" /\ last.objT[j].idx # 0) => i <= j

\* the layers that competed at the last pixel
Competing == contributors(hw, last.mask, last.bgT, last.objT)

\* C19: a background is the top layer over the sprite layer only with a
\* strictly lower priority number than the tracked sprite, so at equal
\* priority the sprite is on top; the sprite layer competes with the priority
\* of the lowest OAM index that has an opaque texel; among backgrounds none
\* is behind one with a higher priority number.
C19_PriorityTie ==
    Composed =>
        /\ \A b \in Competing \cap (0 .. 3) :
            /\ (OBJ_LAYER \in Competing /\ last.top = b) =>
                    hw.bg_params[b].pri < last.objT[Tracked].pri
            /\ (last.top = OBJ_LAYER) =>
                    last.objT[Tracked].pri <= hw.bg_params[b].pri
            /\ (last.top \in 0 .. 3) =>
                    hw.bg_params[last.top].pri <= hw.bg_params[b].pri
            /\ (last.second \in 0 .. 3 /\ b # last.top) =>
                    hw.bg_params[last.second].pri <= hw.bg_params[b].pri
        /\ Competing # {} => last.top \in Competing

C19_Witness ==
    /\ Composed
    /\ last.objT[0].idx = 1 /\ last.objT[0].mode = "normal" /\ last.objT[0].pri = 2
    /\ last.objT[127].idx = 1 /\ last.objT[127].mode = "normal"
    /\ last.top = OBJ_LAYER
    /\ last.second = 0 /\ hw.bg_params[0].pri = 2

\* C20: a background texel of palette index 0, in whatever bank, is neither
\* the top nor the second layer, and the sprite layer is neither unless a
\* sprite of the visible pass has a texel of non-zero index; when no layer
\* survives with an opaque texel the pixel is entry 0 of the background
\* palette.
C20_IndexZero ==
    Composed =>
        /\ \A b \in 0 .. 3 :
            last.bgT[b].idx = 0 => last.top # b /\ last.second # b
        /\ (\A i \in DOMAIN last.objT :
                last.objT[i].mode # "window" => last.objT[i].idx = 0) =>
                    last.top # OBJ_LAYER /\ last.second # OBJ_LAYER
        /\ ((\A b \in 0 .. 3 :
                last.bgT[b].idx = 0 \/ hw.bg_params[b].enabled = 0
                    \/ Bit(last.mask, b) = 0)
             /\ (Bit(last.mask, OBJ_LAYER) = 0
                 \/ \A i \in DOMAIN last.objT :
                        last.objT[i].mode # "window" => last.objT[i].idx = 0)) =>
                /\ last.top = BACKDROP /\ last.second = BACKDROP
                /\ last.color = hw.pal_bg[0] + W8 * hw.pal_bg[1]

C20_Witness ==
    /\ Composed
    /\ last.bgT[0] = [idx |-> 0, bank |-> 1]
    /\ hw.bg_params[0].enabled = 1 /\ Bit(last.mask, 0) = 1
    /\ last.top = BACKDROP
    /\ last.color = 16912


\* C25: agbvk_dispatch_frame may be called any number of times on one
\* context: whenever a call begins recording, the command buffer is in a
\* state from which vkBeginCommandBuffer is legal for its pool; the fence is
\* unsignaled when the work has just been submitted; and a call that returns
\* has waited for its own submission.
C25_Redispatch ==
    /\ ~vk.misuse
    /\ (last.op = "agbvk_dispatch_frame" /\ last.step = "submit" /\ vk.pc = "submitted"
            => vk.fence = "unsignaled")
    /\ (last.op = "agbvk_dispatch_frame" /\ last.step = "wait" /\ vk.pc = "idle"
            => vk.gpu = "idle")


\* C26: teardown releases every backend object bring-up created, in
\* dependency order: after agbvk_destroy, and after the cleanup at the end
\* of the prototype's main, no object is left alive and none was alive when
\* the device (or, for the device, the instance) was destroyed.
C26_Teardown ==
    vk.pc = "destroyed" => vk.live = {} /\ vk.orphans = {}


\* the identity matrix in 8.8 fixed point
IsIdentity(a) == a.pa = 256 /\ a.pb = 0 /\ a.pc = 0 /\ a.pd = 256

\* C27: for a mirror that has never been written, the captured snapshot
\* carries the identity matrix for BG2, for BG3 and for every object affine
\* set, whether or not sync_io_to_gba_state ran before snapshot_to.
C27_IdentityDefault ==
    (Captured /\ nw = 0) =>
        /\ IsIdentity(hw.bgAff[2])
        /\ IsIdentity(hw.bgAff[3])
        /\ \A i \in ObjAffIdx : IsIdentity(hw.objAff[i])


\* the values the decode of snapshot_to can produce
DecodableCharBase == {charBaseBytes(f * 4) : f \in 0 .. 3}
DecodableScreenBase == {screenBaseBytes(f * 256) : f \in 0 .. 31}
DecodableRef == Asr32(INT32_MIN, 20) .. Asr32(-(INT32_MIN + 1), 20)

\* C28: every background of the scene authored by agb_init_hw has a charBase
\* and a screenBase that the register decode can produce, and the affine
\* reference origin of BG2 lies in the range the decode can produce.
C28_AuthoredCanonical ==
    SceneBuilt =>
        /\ \A i \in 0 .. AGB_BG_COUNT - 1 :
            /\ hw.bg_params[i].charBase \in DecodableCharBase
            /\ hw.bg_params[i].screenBase \in DecodableScreenBase
        /\ hw.bgAff[2].refX \in DecodableRef
        /\ hw.bgAff[2].refY \in DecodableRef


\* C29: a value written to REG_WIN1H or REG_WIN1V is carried by
\* sync_io_to_gba_state followed by snapshot_to into win1 = (x1, y1, x2, y2),
\* x1 and y1 from the low byte and x2 and y2 from the high byte of the
\* horizontal and the vertical register, as REG_WIN0H and REG_WIN0V are
\* carried into win0.
C29_SecondWindow ==
    (Captured /\ last.synced) =>
        /\ hw.win.win1[0] = Field(IoAt(OFFSET_REG_WIN1H), 0, 8)
        /\ hw.win.win1[2] = Field(IoAt(OFFSET_REG_WIN1H), 8, 8)
        /\ hw.win.win1[1] = Field(IoAt(OFFSET_REG_WIN1V), 0, 8)
        /\ hw.win.win1[3] = Field(IoAt(OFFSET_REG_WIN1V), 8, 8)


\* the mirror registers without DISPCNT
NoDispcnt == [f \in DOMAIN REG \ {"DISPCNT"} |-> REG[f]]

\* a capture written out over the memories, the registers r and the target
\* `old` it overwrites
CaptureFrom(r, old) ==
    [vram |-> VRAM, pal_bg |-> PAL_BG, pal_obj |-> PAL_OBJ, oam |-> OAM,
     bg_params |-> [i \in 0 .. 3 |->
        [charBase |-> Field(r.BG_CNT[i], 2, 2) * 16384,
         screenBase |-> Field(r.BG_CNT[i], 8, 5) * 2048,
         hofs |-> r.BG_HOFS[i],
         vofs |-> r.BG_VOFS[i],
         pri |-> Field(r.BG_CNT[i], 0, 2),
         enabled |-> 1,
         flags |-> 4 * Bit(r.BG_CNT[i], 6) + (IF i >= 2 THEN 1 ELSE 0),
         pad |-> 0]],
     win |-> [win0 |-> [k \in 0 .. 3 |->
                <<r.WIN0H_x1, r.WIN0V_y1, r.WIN0H_x2, r.WIN0V_y2>>[k + 1]],
              win1 |-> [k \in 0 .. 3 |->
                <<r.WIN1H_x1, r.WIN1V_y1, r.WIN1H_x2, r.WIN1V_y2>>[k + 1]],
              winIn0 |-> Field(r.WININ, 0, 6), winIn1 |-> Field(r.WININ, 8, 6),
              winOut |-> Field(r.WINOUT, 0, 6), winObj |-> Field(r.WINOUT, 8, 6)],
     fx |-> [bldcnt |-> r.BLDCNT, bldalpha |-> r.BLDALPHA,
             bldy |-> r.BLDY, mosaic |-> r.MOSAIC],
     scan |-> [y \in DOMAIN old.scan |-> ScanlineOf(0)],
     bgAff |-> [i \in DOMAIN old.bgAff |->
        CASE i = 2 -> [refX |-> Asr32(r.BG2X, 20), refY |-> Asr32(r.BG2Y, 20),
                       pa |-> S16(r.BG2PA), pb |-> S16(r.BG2PB),
                       pc |-> S16(r.BG2PC), pd |-> S16(r.BG2PD)]
          [] i = 3 -> [refX |-> Asr32(r.BG3X, 20), refY |-> Asr32(r.BG3Y, 20),
                       pa |-> S16(r.BG3PA), pb |-> S16(r.BG3PB),
                       pc |-> S16(r.BG3PC), pd |-> S16(r.BG3PD)]
          [] OTHER -> old.bgAff[i]],
     objAff |-> [i \in ObjAffIdx |->
        [pa |-> S16(r.OBJ_AFF[i].pa), pb |-> S16(r.OBJ_AFF[i].pb),
         pc |-> S16(r.OBJ_AFF[i].pc), pd |-> S16(r.OBJ_AFF[i].pd)]]]

\* C30: snapshot_to marks all four backgrounds enabled for every mirror
\* state, and the snapshot is determined by the memories and the registers
\* other than DISPCNT: DISPCNT influences no field of it.
C30_AlwaysEnabled ==
    [][last'.op = "snapshot_to" =>
        /\ \A i \in 0 .. AGB_BG_COUNT - 1 : hw'.bg_params[i].enabled = 1
        /\ hw' = CaptureFrom(NoDispcnt, hw)]_vars

\* DISPCNT = 0x6AD5 synced from the I/O array (the enable bits of BG0 and BG2
\* clear), then a capture
C30_Witness ==
    /\ Captured
    /\ last.synced
    /\ REG.DISPCNT = 27349
    /\ Bit(REG.DISPCNT, 8) = 0
    /\ hw.bg_params[0].enabled = 1


\* the blend words in effect on the line of the composed pixel
FxOfPixel == resolveScanline(hw, last.y)

\* the composed pixel is alpha-blended: the effect bit of its window mask is
\* set, its top layer is a blend source, its second layer a blend target,
\* and the mode is alpha-blend (or the top layer is a semi-transparent
\* sprite)
AlphaBlended ==
    /\ Composed
    /\ Bit(last.mask, EFFECT_BIT) = 1
    /\ last.top # BACKDROP /\ Bit(FxOfPixel.bldcnt, last.top) = 1
    /\ last.second # BACKDROP /\ Bit(FxOfPixel.bldcnt, 8 + last.second) = 1
    /\ \/ Field(FxOfPixel.bldcnt, 6, 2) = 1
       \/ last.top = OBJ_LAYER
            /\ \E i \in DOMAIN last.objT :
                /\ last.objT[i].mode = "semi" /\ last.objT[i].idx # 0
                /\ \A j \in DOMAIN last.objT :
                    (j < i /\ last.objT[j].mode # "window") => last.objT[j].idx = 0

\* the smaller of two numbers
Min(a, b) == IF a < b THEN a ELSE b

\* C23: in alpha-blend mode every channel of the output is
\* min(31, (top * EVA + second * EVB) / 16) with EVA and EVB the 5-bit
\* coefficients; with EVA = EVB = 8 it is (C1 + C2) / 2; and the output never
\* leaves the 15 bits of three 5-bit channels.
C23_AlphaBlend ==
    AlphaBlended =>
        LET eva == (FxOfPixel.bldalpha) % 32
            evb == (FxOfPixel.bldalpha \div 256) % 32
            t == layerColor(hw, last.top)
            u == layerColor(hw, last.second)
            out(k) == Min(31, (((t \div (32 ^ k)) % 32) * eva
                                + ((u \div (32 ^ k)) % 32) * evb) \div 16)
        IN  /\ last.color = out(0) + 32 * out(1) + 1024 * out(2)
            /\ last.color \in 0 .. 32767
            /\ (eva = 8 /\ evb = 8) =>
                    \A k \in 0 .. 2 :
                        (last.color \div (32 ^ k)) % 32
                            = (((t \div (32 ^ k)) % 32) + ((u \div (32 ^ k)) % 32)) \div 2

\* a background on top that is a blend source over a second layer that is a
\* target, EVA = EVB = 8, and a channel whose sum is odd
C23_Witness ==
    /\ AlphaBlended
    /\ last.top = 0
    /\ last.second \in 1 .. 3
    /\ FxOfPixel.bldalpha = 2056
    /\ \E k \in 0 .. 2 :
        /\ (chan(layerColor(hw, last.top), k) + chan(layerColor(hw, last.second), k)) % 2 = 1
        /\ chan(last.color, k) = 15


AffineSampled == last.op = "sampleBackground" /\ Bit(hw.bg_params[last.b].flags, 0) = 1

\* the map-space point of the last sample lies outside the map
OutsideMap ==
    LET p == affinePoint(hw.bgAff[last.b], last.x, last.y)
    IN  \/ p[1] < 0 \/ p[1] >= last.P.mapWidth * 8
        \/ p[2] < 0 \/ p[2] >= last.P.mapHeight * 8

\* C22: an affine background whose wrap flag is clear is transparent at
\* every pixel whose map-space point lies outside the map, and nothing of
\* the map or the tile data is read for it; with the wrap flag set the
\* point is reduced modulo the map size and the sample lies inside the map.
C22_AffineWrap ==
    AffineSampled =>
        LET bg == hw.bg_params[last.b]
            p == affinePoint(hw.bgAff[last.b], last.x, last.y)
            w == last.P.mapWidth * 8
            ht == last.P.mapHeight * 8
            t == last.texel
        IN  /\ (Bit(bg.flags, 1) = 0 /\ OutsideMap) => t.idx = 0 /\ t.reads = {}
            /\ Bit(bg.flags, 1) = 1 =>
                /\ t.u \in 0 .. w - 1 /\ t.v \in 0 .. ht - 1
                /\ (t.u - p[1]) % w = 0 /\ (t.v - p[2]) % ht = 0
                /\ \A a \in t.reads :
                    \/ a \in bg.screenBase .. bg.screenBase + last.P.mapWidth * last.P.mapHeight - 1
                    \/ a >= bg.charBase

\* an affine background with the wrap flag set, sampled at a negative map
\* coordinate, gives an opaque texel
C22_Witness ==
    /\ AffineSampled
    /\ Bit(hw.bg_params[last.b].flags, 1) = 1
    /\ affinePoint(hw.bgAff[last.b], last.x, last.y)[1] < 0
    /\ last.texel.idx # 0
    /\ Cardinality(last.texel.reads) = 2

\* the first byte of the tile the last sample refers to
TileBaseOfSample ==
    IF last.b = OBJ_LAYER THEN last.P.objCharBase + Field(last.in.entry, 0, 10) * 32
    ELSE IF Bit(hw.bg_params[last.b].flags, 0) = 1
    THEN hw.bg_params[last.b].charBase + last.in.entry * 64
    ELSE hw.bg_params[last.b].charBase + Field(last.in.entry, 0, 10) * (last.in.bpp * 8)

====
